---- MODULE Spec2Model ----
(***************************************************************************)
(* inbox-ai: the ingestion-and-enrichment pipeline.                        *)
(*                                                                         *)
(* The model follows MailFetcher.run (ingestion/fetcher.py), the message   *)
(* source ImapClient.fetch_since (transport/imap_client.py),               *)
(* OptimizedMailFetcher (ingestion/optimized_fetcher.py) and the parts of  *)
(* SqliteEmailRepository (storage/sqlite.py) they write to.                *)
(*                                                                         *)
(* One run of an orchestrator is a sequence of steps; pc is the position   *)
(* of the run in the code.  Every call that the code treats as fallible    *)
(* (the source, the parser, persist_email, each enrichment service, each   *)
(* repository write of an enrichment result, the re-read of the stored     *)
(* insight) has its outcome drawn with \E.  get_checkpoint and             *)
(* upsert_checkpoint are taken to succeed.                                 *)
(*                                                                         *)
(* The mailbox holds the messages with UIDs 1..n and loses none: a         *)
(* message's sequence number is its UID, so the search key "s:*" that      *)
(* fetch_since sends selects the same messages whether the server reads    *)
(* it as a range of sequence numbers or of UIDs.                           *)
(***************************************************************************)
EXTENDS Integers, Sequences, FiniteSets, TLC

(* ---------------------------------------------------------------- bounds *)
\* highest UID a mailbox of the model can hold
MaxUid == 2
\* number of run() invocations a behaviour of Spec can make
MaxRuns == 3
\* POST /sync requests the dashboard receives
MaxRequests == 3
\* the clock advances TickSeconds at a time, MaxTicks times at most
TickSeconds == 30
MaxTicks == 3
\* messages one manual sync finds in the mailbox
MessagesPerSync == 2
\* repository operations one behaviour of RepoSpec makes
MaxRepoOps == 4
\* largest batch_size a caller passes to fetch_since
MaxBatchSize == 3

\* fetchers constructed, batches of a run and envelopes of a batch in the
\* metrics
MaxFetchers == 3
MaxBatches == 2
MaxBatchEnvelopes == 2

\* changes made to what the dashboard shows, and the clock of the response
\* cache: it advances CacheTickSeconds at a time, MaxCacheTicks times at most
MaxChanges == 2
CacheTickSeconds == 200
MaxCacheTicks == 2

\* the connection pool: its largest size, the connections it replaces, the
\* callers of acquire and the calls of close
MaxPoolSize == 2
MaxReplacements == 2
MaxCallers == 2
MaxCloseCalls == 2

\* runs of MailFetcher over the mailboxes that share one database
MaxMailboxRuns == 4

(* ------------------------------------------------------------- constants *)
\* ttl_seconds of the dashboard's cache entries
DashboardTtl == 300
\* Python's None for an absent checkpoint / last_uid
None == 0

UIDs == 1..MaxUid

NoInsight == "none"

\* keys that suppress drafts and follow-ups
excluded_categories == {"marketing", "notification", "spam"}

\* results a category service can return for a message
CategoryResults == {{}, {"work"}, {"spam"}}

\* results a follow-up planner can return for a message
PlannerResults == {{}, {[action |-> "reply", status |-> "open"]}}

\* the configured personal address of the runs that have one
Me == "me@example.com"

\* recipient lists of the message with UID u, as the parser extracts them
EnvelopeOf(u) ==
  [uid |-> u,
   to  |-> IF u % 3 = 1 THEN {Me} ELSE {"other@example.com"},
   cc  |-> {},
   bcc |-> IF u % 3 = 0 THEN {Me} ELSE {}]

\* what the parser extracts from a message for subject, sender and the two
\* bodies: a plain-text message, an HTML-only message whose markup is the
\* same string, and a message with another subject and text
PlainMail ==
  [subject |-> "s", sender |-> "a@example.com", text |-> "x", html |-> "None"]

HtmlMail ==
  [subject |-> "s", sender |-> "a@example.com", text |-> "None", html |-> "x"]

OtherMail ==
  [subject |-> "t", sender |-> "a@example.com", text |-> "y", html |-> "None"]

\* the contents the messages of the mailbox can have, UID by UID
ContentAssignments ==
  {[u \in 1..MaxUid |-> IF u = 1 THEN PlainMail ELSE c] :
     c \in {PlainMail, HtmlMail, OtherMail}}

\* constructor arguments of the orchestrators that the model runs with
Configs ==
  { [max_messages |-> None, insight_service |-> TRUE, category_service |-> TRUE,
     drafting_service |-> TRUE, follow_up_planner |-> TRUE, user_email |-> "None",
     analysis_batch_size |-> 2],
    [max_messages |-> 1, insight_service |-> TRUE, category_service |-> TRUE,
     drafting_service |-> TRUE, follow_up_planner |-> TRUE, user_email |-> Me,
     analysis_batch_size |-> 1],
    [max_messages |-> 2, insight_service |-> FALSE, category_service |-> FALSE,
     drafting_service |-> FALSE, follow_up_planner |-> FALSE, user_email |-> "None",
     analysis_batch_size |-> 2],
    [max_messages |-> None, insight_service |-> TRUE, category_service |-> FALSE,
     drafting_service |-> TRUE, follow_up_planner |-> TRUE, user_email |-> "",
     analysis_batch_size |-> 1] }

VARIABLES
  \* the mailbox on the server, the messages the parser rejects, and the
  \* subject, sender and bodies of every message
  mailboxUids, parseBad, contents,
  \* constructor arguments
  cfg,
  \* repository
  emails, insights, categories, drafts, followUps, checkpoint, contentHash,
  \* for every insight row, the message whose envelope its summary, action
  \* items, priority, generation time and fallback flag were computed from
  insightSource,
  \* which orchestrator is running, and the locals of OptimizedMailFetcher
  orchestrator, pending, cached, batchReturn,
  \* locals of the running orchestrator
  pc, ids, chunk, last_uid, new_last_uid, processed, failed, insight, cats,
  \* what the last run gave back to its caller
  result, raised,
  \* history of the current run
  runs, yielded, attempted, persistFailed, handled, enriched, cpWrites,
  \* the calls the current run has made for the message in hand to the
  \* parser, the services and the repository, in order; the checkpoint write
  \* of the message closes the list
  calls,
  \* one application of the draft test of each orchestrator: the categories,
  \* recipient lists and configured address it is applied to, and whether
  \* each orchestrator lets the draft through
  ruleInput, ruleDecision,
  \* the dashboard's manual sync: the monotonic clock, the times of the
  \* accepted POST /sync requests, the checkpoint row of the one mailbox,
  \* every request's position, and the checkpoint writes in order
  clock, sync_rate_history, syncCheckpoint, syncs, syncWrites,
  \* the tables of SqliteEmailRepository as sets of rows (attachments,
  \* categories, follow-ups, emails), or per email_uid (insights, drafts)
  tblEmails, tblAttachments, tblInsights, tblDrafts, tblCategories,
  tblFollowUps, nextFollowUpId,
  \* history of the repository operations: the mailbox whose envelope was
  \* stored under a UID when its enrichment was last written, the
  \* (mailbox, UID) pairs persisted, the last operation, and their number
  enrichedOf, persistedFrom, lastOp, repoOps,
  \* one call of OllamaClient.generate: the settings and the prompt, the
  \* position in the method, the loop variable, data, what the call gave its
  \* caller, and its history: the answers to its HTTP requests and its sleeps
  llmCall, llmPc, attempt, data, llmOutcome, posts, slept,
  \* one call of an intelligence service: the service, its settings, the
  \* message and the answer of the AI client; and what the call gave back
  svcInput, svcResult,
  \* the metrics of OptimizedMailFetcher: the counters of the fetcher and of
  \* the analyzer it was given, the position of run(), and, as history of
  \* the run, the envelopes handed to _process_batch, those sent to the
  \* analyzer, the composite AI calls that succeeded, and the batches
  fetcherMetrics, analyzerMetrics, metPc, tally,
  \* the dashboard's response cache: the entries of response_cache, the
  \* clock, the number of changes made to what the dashboard shows, the last
  \* response of GET /, and the last handler that changed the data
  cacheEntries, cacheNow, dataVersion, served, lastChange,
  \* ConnectionPool: pool_size, the queue _pool, _created_count, _closed,
  \* whether each connection is open, and for every caller of acquire its
  \* position, its variable repository and what acquire raised to it; and
  \* the calls of close() so far
  pool_size, poolQueue, created_count, poolClosed, connStatus, callerPc, repository, acquireRaised, closeCalls,
  \* the table sync_state as a set of rows, and a run of MailFetcher for one
  \* of several mailboxes: the mailbox, the position, last_uid, the UIDs the
  \* source has still to yield; the table as it was when the run started,
  \* the rows the run has read and written, and the runs so far
  sync_state, mbxRun, stateAtStart, rowsRead, rowsWritten, mbxRuns,
  \* history over all runs: the composite AI calls made for every message
  aiCalls,
  \* history of the current run: the buffers handed to _process_batch
  batches,
  \* history over all runs
  persistCount

repoVars == <<emails, insights, insightSource, categories, drafts, followUps,
              checkpoint, contentHash>>
optVars == <<orchestrator, pending, cached, batchReturn>>
enrichVars == <<insights, insightSource, categories, drafts, followUps>>
ruleVars == <<ruleInput, ruleDecision>>
webVars == <<clock, sync_rate_history, syncCheckpoint, syncs, syncWrites>>
sqlVars == <<tblEmails, tblAttachments, tblInsights, tblDrafts, tblCategories,
            tblFollowUps, nextFollowUpId, enrichedOf, persistedFrom, lastOp, repoOps>>
llmVars == <<llmCall, llmPc, attempt, data, llmOutcome, posts, slept>>
svcVars == <<svcInput, svcResult>>
metVars == <<fetcherMetrics, analyzerMetrics, metPc, tally>>
cacheVars == <<cacheEntries, cacheNow, dataVersion, served, lastChange>>
poolVars == <<pool_size, poolQueue, created_count, poolClosed, connStatus, callerPc, repository, acquireRaised, closeCalls>>
mbxVars == <<sync_state, mbxRun, stateAtStart, rowsRead, rowsWritten, mbxRuns>>
sideVars == <<ruleVars, webVars, sqlVars, llmVars, svcVars, metVars, cacheVars, poolVars, mbxVars>>
envVars == <<mailboxUids, parseBad, contents, cfg, sideVars>>
localVars == <<pc, ids, chunk, last_uid, new_last_uid, processed, failed, insight, cats>>
histVars == <<runs, yielded, attempted, persistFailed, handled, enriched, cpWrites,
              calls, persistCount, aiCalls, batches>>
vars == <<envVars, repoVars, optVars, localVars, result, raised, histVars>>
\* everything the two orchestrators read and write
mainVars == <<mailboxUids, parseBad, contents, cfg, repoVars, optVars, localVars,
              result, raised, histVars>>
\* everything but the variables of one part of the program
besidesRule == <<mainVars, webVars, sqlVars, llmVars, svcVars, metVars, cacheVars, poolVars, mbxVars>>
besidesWeb == <<mainVars, ruleVars, sqlVars, llmVars, svcVars, metVars, cacheVars, poolVars, mbxVars>>
besidesSql == <<mainVars, ruleVars, webVars, llmVars, svcVars, metVars, cacheVars, poolVars, mbxVars>>
besidesLlm == <<mainVars, ruleVars, webVars, sqlVars, svcVars, metVars, cacheVars, poolVars, mbxVars>>
besidesSvc == <<mainVars, ruleVars, webVars, sqlVars, llmVars, metVars, cacheVars, poolVars, mbxVars>>
besidesMet == <<mainVars, ruleVars, webVars, sqlVars, llmVars, svcVars, cacheVars, poolVars, mbxVars>>
besidesCache == <<mainVars, ruleVars, webVars, sqlVars, llmVars, svcVars, metVars, poolVars, mbxVars>>
besidesPool == <<mainVars, ruleVars, webVars, sqlVars, llmVars, svcVars, metVars, cacheVars, mbxVars>>
besidesMbx == <<mainVars, ruleVars, webVars, sqlVars, llmVars, svcVars, metVars, cacheVars, poolVars>>

NoResult == [processed |-> 0, new_last_uid |-> None, returned |-> FALSE]

\* one call, made at the current position of run(): what is called, for which
\* message, whether it returned a result (a write: whether it returned), and
\* the insight it was given where it takes one
CallRec(op, uid, ok, arg) ==
  [op |-> op, uid |-> uid, stage |-> pc, ok |-> ok, arg |-> arg]

\* a call for the message in hand that returns
Call(op) == CallRec(op, chunk, TRUE, "-")

\* a call for the message in hand that raises or returns None
Failed(op) == CallRec(op, chunk, FALSE, "-")

\* a call for the message in hand that is given the insight of the loop body
CallOn(op, ok) == CallRec(op, chunk, ok, insight)

\* a call for a message of the batch in hand
CallFor(op, uid) == CallRec(op, uid, TRUE, "-")

Max(S) == CHOOSE x \in S : \A y \in S : y <= x

Range(s) == {s[i] : i \in 1..Len(s)}

\* the inputs the draft tests are compared on: category keys, recipient
\* lists and the user_email argument (None, the empty string, an address)
RuleInputs ==
  [categories : SUBSET {"work", "spam", "marketing"},
   to : {{}, {Me}, {"other@example.com"}},
   cc : {{}, {Me}},
   bcc : {{}, {Me}},
   user_email : {"None", "", Me}]

\* no draft test has been applied
NoDecision ==
  [decided |-> FALSE, MailFetcher |-> FALSE, OptimizedMailFetcher |-> FALSE]

\* the content_hash column of an email that was never in a batch
NoHash == <<>>

\* an empty repository and an orchestrator that has not run
NoRunYet ==
  /\ emails = {}
  /\ insights = [u \in UIDs |-> NoInsight]
  /\ insightSource = [u \in UIDs |-> None]
  /\ categories = [u \in UIDs |-> {}]
  /\ drafts = [u \in UIDs |-> 0]
  /\ followUps = [u \in UIDs |-> {}]
  /\ checkpoint = None
  /\ contentHash = [u \in UIDs |-> NoHash]
  /\ orchestrator = "MailFetcher"
  /\ pending = <<>>
  /\ cached = <<>>
  /\ batchReturn = "opt_advance"
  /\ pc = "idle"
  /\ ids = <<>>
  /\ chunk = None
  /\ last_uid = None
  /\ new_last_uid = None
  /\ processed = 0
  /\ failed = 0
  /\ insight = NoInsight
  /\ cats = {}
  /\ result = NoResult
  /\ raised = "no"
  /\ runs = 0
  /\ yielded = <<>>
  /\ attempted = {}
  /\ persistFailed = {}
  /\ handled = <<>>
  /\ enriched = {}
  /\ cpWrites = 0
  /\ calls = <<>>
  /\ persistCount = [u \in UIDs |-> 0]
  /\ aiCalls = [u \in UIDs |-> 0]
  /\ batches = <<>>

\* no draft test is being compared
RuleIdle ==
  /\ ruleInput = CHOOSE input \in RuleInputs : TRUE
  /\ ruleDecision = NoDecision

\* a POST /sync request nobody has sent yet
NoSync == [stage |-> "unsent", last_uid |-> None, written |-> 0]

\* the dashboard has received no POST /sync
WebIdle ==
  /\ clock = 0
  /\ sync_rate_history = <<>>
  /\ syncCheckpoint = None
  /\ syncs = [r \in 1..MaxRequests |-> NoSync]
  /\ syncWrites = <<>>

\* a repository operation: its name, the UID it is for, whether it returned
\* (FALSE: it raised), and the number of rows its DELETE removed
Op(name, uid, ok, deleted) == [op |-> name, uid |-> uid, ok |-> ok, deleted |-> deleted]

\* a new database: every table empty
SqlIdle ==
  /\ tblEmails = {}
  /\ tblAttachments = {}
  /\ tblInsights = [u \in UIDs |-> NoInsight]
  /\ tblDrafts = [u \in UIDs |-> 0]
  /\ tblCategories = {}
  /\ tblFollowUps = {}
  /\ nextFollowUpId = 1
  /\ enrichedOf = [u \in UIDs |-> "none"]
  /\ persistedFrom = {}
  /\ lastOp = Op("none", None, TRUE, 0)
  /\ repoOps = 0

\* the calls of OllamaClient.generate: a prompt, and max_output_tokens of
\* the settings (None: not configured)
LlmCalls == [prompt : {"summarise", "draft"}, max_output_tokens : {None, 256}]

\* the method has not been entered
NoCallYet ==
  /\ llmPc = "start"
  /\ attempt = 0
  /\ data = "None"
  /\ llmOutcome = "none"
  /\ posts = <<>>
  /\ slept = <<>>

\* nobody calls the AI client
LlmIdle ==
  /\ llmCall = CHOOSE call \in LlmCalls : TRUE
  /\ NoCallYet

\* the intelligence services and the AI answers they are called with: the
\* client raised LLMError, or returned text that is not JSON, a JSON object
\* without the field the service needs, JSON that is no object, an object
\* with an empty text, or what the prompt asked for
Services == {"SummarizationService", "LLMCategoryService", "DraftingService"}
Responses == {"LLMError", "not_json", "object_without_field", "array",
              "empty_text", "as_asked"}
ServiceInputs ==
  [service : Services, fallback_enabled : BOOLEAN, email : {PlainMail, HtmlMail, OtherMail},
   response : Responses]

\* the service has not returned
NoServiceResult == [ended |-> FALSE, raised |-> "None", provider |-> "None",
                    content |-> "None", used_fallback |-> FALSE]

\* no service is called on its own
SvcIdle ==
  /\ svcInput = CHOOSE input \in ServiceInputs : TRUE
  /\ svcResult = NoServiceResult

\* LLMMetrics.__init__: every counter at zero
NewMetrics == [total_calls |-> 0, cache_hits |-> 0, cache_misses |-> 0]

\* what a run has done so far: nothing
NoTally == [fetchers |-> 0, enriched |-> 0, sent |-> 0, calls |-> 0, batches |-> 0]

\* no fetcher has been constructed for the metrics
MetIdle ==
  /\ fetcherMetrics = NewMetrics
  /\ analyzerMetrics = NewMetrics
  /\ metPc = "none"
  /\ tally = NoTally

\* no response of GET / yet
NoResponse == [request |-> "none", version |-> 0, from_cache |-> FALSE]

\* SimpleCache.__init__: an empty cache, and nothing has been requested
CacheIdle ==
  /\ cacheEntries = {}
  /\ cacheNow = 0
  /\ dataVersion = 0
  /\ served = NoResponse
  /\ lastChange = "none"

\* the connections the pool can create, by number; NoConnection: none
ConnectionIds == 1..(MaxPoolSize + MaxReplacements)
NoConnection == 0
PoolCallers == 1..MaxCallers

\* ConnectionPool.__init__ with the given size: the queue holds pool_size
\* open connections and nobody has called acquire
PoolOfSize(n) ==
  /\ pool_size = n
  /\ poolQueue = [i \in 1..n |-> i]
  /\ created_count = n
  /\ poolClosed = FALSE
  /\ connStatus = [r \in ConnectionIds |-> IF r <= n THEN "open" ELSE "none"]
  /\ callerPc = [c \in PoolCallers |-> "idle"]
  /\ repository = [c \in PoolCallers |-> NoConnection]
  /\ acquireRaised = [c \in PoolCallers |-> "None"]
  /\ closeCalls = 0

\* the pool is not under study: one connection, nobody calls it
PoolIdle == PoolOfSize(1)

\* no run for any mailbox
NoMailboxRun == [mailbox |-> "INBOX", stage |-> "idle", last_uid |-> None, todo |-> <<>>]

\* an empty table sync_state and no run
MbxIdle ==
  /\ sync_state = {}
  /\ mbxRun = NoMailboxRun
  /\ stateAtStart = {}
  /\ rowsRead = {}
  /\ rowsWritten = {}
  /\ mbxRuns = 0

\* no orchestrator is run: an empty mailbox and nothing stored
MainIdle ==
  /\ mailboxUids = {}
  /\ parseBad = {}
  /\ contents = [u \in UIDs |-> PlainMail]
  /\ cfg = CHOOSE c \in Configs : TRUE
  /\ NoRunYet

\* every part of the program but the named one is at rest
IdleExcept(part) ==
  /\ IF part = "main" THEN TRUE ELSE MainIdle
  /\ IF part = "rule" THEN TRUE ELSE RuleIdle
  /\ IF part = "web" THEN TRUE ELSE WebIdle
  /\ IF part = "sql" THEN TRUE ELSE SqlIdle
  /\ IF part = "llm" THEN TRUE ELSE LlmIdle
  /\ IF part = "svc" THEN TRUE ELSE SvcIdle
  /\ IF part = "met" THEN TRUE ELSE MetIdle
  /\ IF part = "cache" THEN TRUE ELSE CacheIdle
  /\ IF part = "pool" THEN TRUE ELSE PoolIdle
  /\ IF part = "mbx" THEN TRUE ELSE MbxIdle

\* the start, with the message contents taken from the given assignments
InitWith(assignments) ==
  /\ mailboxUids \in {1..n : n \in 0..MaxUid}
  /\ parseBad \in SUBSET mailboxUids
  /\ contents \in assignments
  /\ cfg \in Configs
  /\ IdleExcept("main")
  /\ NoRunYet

\* MailFetcher does not read the content of a message: one assignment
Init == InitWith({[u \in UIDs |-> PlainMail]})

(* ------------------------------------------------------- message source *)
\* a search that ignores the checkpoint
StartUidFromOne(lastUid) == 1

\* first UID the search asks for
StartUid(lastUid) == IF lastUid = None THEN 1 ELSE lastUid + 1

\* the server's answer to SEARCH "s:*": "*" is the highest number in use and
\* a range covers the numbers between its two ends in either order, so the
\* last message is always in the answer of a mailbox that is not empty
ImapSearch(start) ==
  IF mailboxUids = {} THEN <<>>
  ELSE LET top == Max(mailboxUids)
           lo == IF start <= top THEN start ELSE top
       IN  [i \in 1..(top - lo + 1) |-> lo + i - 1]

\* _chunked: successive lists of size elements, the last one shorter
RECURSIVE Chunked(_, _)
Chunked(items, size) ==
  IF items = <<>> THEN <<>>
  ELSE IF Len(items) <= size THEN <<items>>
  ELSE <<SubSeq(items, 1, size)>> \o Chunked(SubSeq(items, size + 1, Len(items)), size)

\* the order in which the generator of fetch_since walks the chunks
RECURSIVE FetchOrder(_)
FetchOrder(chunks) ==
  IF chunks = <<>> THEN <<>> ELSE Head(chunks) \o FetchOrder(Tail(chunks))

(* -------------------------------------------------------------- MailFetcher *)
\* the run ends with an exception that reaches the caller
Raise(kind) ==
  /\ pc' = "raised"
  /\ raised' = kind
  /\ ids' = <<>>
  /\ insight' = NoInsight
  /\ cats' = {}

\* run(), up to the call of fetch_since: the checkpoint is read and the
\* search is sent
Start(which) ==
  /\ pc \in {"idle", "returned", "raised"}
  /\ orchestrator' = which
  /\ pending' = <<>>
  /\ cached' = <<>>
  /\ batchReturn' = "opt_advance"
  /\ runs' = IF runs < MaxRuns THEN runs + 1 ELSE runs
  /\ last_uid' = checkpoint
  /\ new_last_uid' = checkpoint
  /\ processed' = 0
  /\ failed' = 0
  /\ chunk' = None
  /\ result' = NoResult
  /\ yielded' = <<>>
  /\ attempted' = {}
  /\ persistFailed' = {}
  /\ handled' = <<>>
  /\ enriched' = {}
  /\ cpWrites' = 0
  /\ calls' = <<>>
  /\ insight' = NoInsight
  /\ cats' = {}
  /\ \E searchOk \in BOOLEAN :
       IF searchOk
       THEN /\ ids' = ImapSearch(StartUid(checkpoint))
            /\ pc' = "fetch"
            /\ raised' = "no"
       ELSE /\ ids' = <<>>
            /\ pc' = "raised"
            /\ raised' = "transport"
  /\ batches' = <<>>
  /\ UNCHANGED <<envVars, repoVars, persistCount, aiCalls>>

\* MailFetcher.run is called
Run == runs < MaxRuns /\ Start("MailFetcher")

\* MailFetcher.run is called again once the counted invocations are used
\* up: the caller syncs the mailbox for as long as it lives
RunAgain == runs = MaxRuns /\ Start("MailFetcher")

\* one step of the generator of fetch_since: the next UID is fetched
SourceNext ==
  /\ pc = "fetch"
  /\ ids # <<>>
  /\ \E outcome \in {"chunk", "no_payload", "error"} :
       CASE outcome = "chunk" ->
              /\ chunk' = Head(ids)
              /\ ids' = Tail(ids)
              /\ yielded' = Append(yielded, Head(ids))
              /\ pc' = "parse"
              /\ UNCHANGED <<calls, raised, insight, cats>>
         [] outcome = "no_payload" ->
              /\ ids' = Tail(ids)
              /\ UNCHANGED <<chunk, yielded, calls, pc, raised, insight, cats>>
         [] outcome = "error" ->
              /\ Raise("transport")
              /\ UNCHANGED <<chunk, yielded, calls>>
  /\ UNCHANGED <<envVars, optVars, repoVars, last_uid, new_last_uid,
                 processed, failed, result, runs, attempted, persistFailed,
                 handled, enriched, cpWrites, persistCount, aiCalls, batches>>

\* a store that inserts the first checkpoint and ignores every later one
upsert_checkpoint_insert_only(uid) ==
  /\ checkpoint' = IF checkpoint = None THEN uid ELSE checkpoint
  /\ cpWrites' = cpWrites + 1

\* upsert_checkpoint(SyncCheckpoint(mailbox, uid)): the store overwrites
upsert_checkpoint(uid) ==
  /\ checkpoint' = uid
  /\ cpWrites' = cpWrites + 1

\* a loop that records the checkpoint as soon as the chunk arrives
ParseAfterCheckpoint ==
  /\ pc = "parse"
  /\ upsert_checkpoint(chunk)
  /\ calls' = Append(calls, Call("parse"))
  /\ IF chunk \in parseBad
     THEN Raise("parse")
     ELSE /\ pc' = IF orchestrator = "MailFetcher" THEN "persist" ELSE "opt_persist"
          /\ UNCHANGED <<raised, ids, insight, cats>>
  /\ UNCHANGED <<envVars, optVars, contentHash, emails, enrichVars, chunk,
                 last_uid, new_last_uid, processed, failed, result, runs,
                 yielded, attempted, persistFailed, handled, enriched,
                 persistCount, aiCalls, batches>>

\* parser.parse(chunk.uid, chunk.raw, mailbox_name)
Parse ==
  /\ pc = "parse"
  /\ IF chunk \in parseBad
     THEN Raise("parse")
     ELSE /\ pc' = IF orchestrator = "MailFetcher" THEN "persist" ELSE "opt_persist"
          /\ UNCHANGED <<raised, ids, insight, cats>>
  /\ calls' = Append(calls, IF chunk \in parseBad THEN Failed("parse")
                                                    ELSE Call("parse"))
  /\ UNCHANGED <<envVars, optVars, repoVars, chunk, last_uid, new_last_uid,
                 processed, failed, result, runs, yielded, attempted,
                 persistFailed, handled, enriched, cpWrites, persistCount, aiCalls, batches>>

\* a loop body that drafts the reply before the categories are known
NextStageDraftFirst(stage) ==
  CASE stage = "persist"    -> "insight"
    [] stage = "insight"    -> "draft"
    [] stage = "draft"      -> "categorize"
    [] stage = "categorize" -> "regenerate"
    [] stage = "regenerate" -> "follow_ups"
    [] stage = "follow_ups" -> "advance"

\* the statement that follows each stage in the body of the loop
NextStage(stage) ==
  CASE stage = "persist"    -> "insight"
    [] stage = "insight"    -> "categorize"
    [] stage = "categorize" -> "regenerate"
    [] stage = "regenerate" -> "draft"
    [] stage = "draft"      -> "follow_ups"
    [] stage = "follow_ups" -> "advance"

\* an except branch that leaves the checkpoint behind the failed message
OnPersistFailureNoCheckpoint ==
  /\ failed' = failed + 1
  /\ new_last_uid' = chunk
  /\ pc' = "fetch"
  /\ UNCHANGED <<processed, checkpoint, cpWrites>>

\* an except branch that ends the loop and leaves the message for later
OnPersistFailureStopsRun ==
  /\ failed' = failed + 1
  /\ pc' = "finish"
  /\ UNCHANGED <<processed, new_last_uid, checkpoint, cpWrites>>

\* an except branch without its continue: the loop body goes on
OnPersistFailureFallsThrough ==
  /\ failed' = failed + 1
  /\ upsert_checkpoint(chunk)
  /\ new_last_uid' = chunk
  /\ pc' = "insight"
  /\ UNCHANGED processed

\* the except branch of persist_email: count, checkpoint, continue
OnPersistFailure ==
  /\ failed' = failed + 1
  /\ upsert_checkpoint(chunk)
  /\ new_last_uid' = chunk
  /\ pc' = "fetch"
  /\ UNCHANGED processed

\* persist_email inside its try, with the except branch
PersistEmail ==
  /\ pc = "persist"
  /\ attempted' = attempted \cup {chunk}
  /\ \E ok \in BOOLEAN :
       IF ok
       THEN /\ emails' = emails \cup {chunk}
            /\ persistCount' = [persistCount EXCEPT
                                   ![chunk] = IF @ < MaxRuns THEN @ + 1 ELSE @]
            /\ pc' = NextStage("persist")
            /\ calls' = Append(calls, Call("persist_email"))
            /\ UNCHANGED <<checkpoint, cpWrites, new_last_uid, failed,
                           processed, persistFailed, handled>>
       ELSE /\ OnPersistFailure
            /\ calls' = <<>>
            /\ persistFailed' = persistFailed \cup {chunk}
            /\ handled' = Append(handled, chunk)
            /\ UNCHANGED <<emails, persistCount>>
  /\ UNCHANGED <<envVars, optVars, contentHash, enrichVars, ids, chunk,
                 last_uid, insight, cats, result, raised, runs, yielded,
                 enriched, aiCalls, batches>>

\* persist_insight: the email row must exist, or ValueError is raised
persist_insight_allowed(uid) == uid \in emails

\* a re-read that never finds the row
fetch_insight_nothing(uid) == NoInsight

\* fetch_insight: the stored insight row of the UID, None without one
fetch_insight(uid) == insights[uid]

\* first insight generation with its except branches, then the re-read of the
\* stored insight when no fresh one is at hand.  An InsightError and any
\* other exception of the service leave the same state and are one outcome.
GenerateInsight ==
  /\ pc = "insight"
  /\ \E gen \in (IF cfg.insight_service
                 THEN {"stored", "persist_raises", "none", "raises"}
                 ELSE {"no_service"}) :
       /\ gen = "stored" => persist_insight_allowed(chunk)
       /\ insights' = IF gen = "stored" THEN [insights EXCEPT ![chunk] = "first"]
                      ELSE insights
       /\ insightSource' = IF gen = "stored"
                           THEN [insightSource EXCEPT ![chunk] = chunk]
                           ELSE insightSource
       /\ enriched' = IF cfg.insight_service THEN enriched \cup {chunk} ELSE enriched
       /\ calls' = calls
                    \o (CASE gen \in {"stored", "persist_raises"} ->
                               <<Call("generate_insight")>>
                          [] gen \in {"none", "raises"} ->
                               <<Failed("generate_insight")>>
                          [] OTHER -> <<>>)
                    \o (CASE gen = "stored" -> <<Call("persist_insight")>>
                          [] gen = "persist_raises" -> <<Failed("persist_insight")>>
                          [] OTHER -> <<>>)
                    \o (IF gen # "stored" THEN <<Call("fetch_insight")>> ELSE <<>>)
       /\ IF gen = "stored"
          THEN /\ insight' = "first"
               /\ pc' = NextStage("insight")
               /\ UNCHANGED <<raised, ids, cats>>
          ELSE \E reread \in {"row", "raises"} :
                 IF reread = "row"
                 THEN /\ insight' = fetch_insight(chunk)
                      /\ pc' = NextStage("insight")
                      /\ UNCHANGED <<raised, ids, cats>>
                 ELSE Raise("reread")
  /\ UNCHANGED <<envVars, optVars, contentHash, emails, categories, drafts,
                 followUps, checkpoint, chunk, last_uid, new_last_uid,
                 processed, failed, result, runs, yielded, attempted,
                 persistFailed, handled, cpWrites, persistCount, aiCalls, batches>>

\* categorize and replace_categories inside their try: the local tuple is
\* assigned before the write, so a failed write leaves it assigned
Categorize ==
  /\ pc = "categorize"
  /\ IF cfg.category_service
     THEN /\ enriched' = enriched \cup {chunk}
          /\ \E outcome \in {"replaced", "write_raises", "raises"}, cs \in CategoryResults :
               CASE outcome = "replaced" ->
                      /\ cats' = cs
                      /\ categories' = [categories EXCEPT ![chunk] = cs]
                      /\ calls' = calls \o <<CallOn("categorize", TRUE),
                                              Call("replace_categories")>>
                 [] outcome = "write_raises" ->
                      /\ cats' = cs
                      /\ calls' = calls \o <<CallOn("categorize", TRUE),
                                              Failed("replace_categories")>>
                      /\ UNCHANGED categories
                 [] outcome = "raises" ->
                      /\ cs = {}
                      /\ cats' = {}
                      /\ calls' = Append(calls, CallOn("categorize", FALSE))
                      /\ UNCHANGED categories
     ELSE /\ cats' = {}
          /\ UNCHANGED <<categories, enriched, calls>>
  /\ pc' = NextStage("categorize")
  /\ UNCHANGED <<envVars, optVars, contentHash, emails, insights, insightSource, drafts,
                 followUps, checkpoint, ids, chunk, last_uid, new_last_uid,
                 processed, failed, insight, result, raised, runs, yielded,
                 attempted, persistFailed, handled, cpWrites, persistCount, aiCalls, batches>>

\* the parameters of generate_insight, after self, as InsightService and
\* SummarizationService declare it
generate_insight_parameters == <<"email">>

\* the positional arguments of the second call of the loop body
RegenerateArguments == <<"envelope", "categories">>

\* a service whose generate_insight takes the categories too
regenerate_call_always_accepted == TRUE

\* Python binds the arguments before the service runs: one more argument
\* than parameters raises TypeError
regenerate_call_accepted ==
  Len(RegenerateArguments) <= Len(generate_insight_parameters)

\* the insight of the loop body after the second generation: the updated
\* one is assigned once its write has returned
InsightAfterRegenerate(stored) == IF stored THEN "updated" ELSE insight

\* second insight generation, with the categories; its except branches
\* catch the TypeError of a call that the service does not accept
RegenerateInsight ==
  /\ pc = "regenerate"
  /\ IF insight # NoInsight /\ cfg.insight_service
     THEN \E gen \in (IF regenerate_call_accepted
                      THEN {"stored", "persist_raises", "none", "raises"}
                      ELSE {"type_error"}) :
            /\ gen = "stored" => persist_insight_allowed(chunk)
            /\ calls' = calls
                         \o (CASE gen \in {"stored", "persist_raises"} ->
                                    <<Call("generate_insight")>>
                               [] gen = "type_error" ->
                                    <<CallRec("generate_insight", chunk, FALSE,
                                              "TypeError")>>
                               [] OTHER -> <<Failed("generate_insight")>>)
                         \o (CASE gen = "stored" -> <<Call("persist_insight")>>
                               [] gen = "persist_raises" ->
                                    <<Failed("persist_insight")>>
                               [] OTHER -> <<>>)
            /\ insights' = IF gen = "stored"
                           THEN [insights EXCEPT ![chunk] = "updated"]
                           ELSE insights
            /\ insightSource' = IF gen = "stored"
                                THEN [insightSource EXCEPT ![chunk] = chunk]
                                ELSE insightSource
            /\ insight' = InsightAfterRegenerate(gen = "stored")
     ELSE UNCHANGED <<insights, insightSource, insight, calls>>
  /\ pc' = NextStage("regenerate")
  /\ UNCHANGED <<envVars, optVars, contentHash, emails, categories, drafts,
                 followUps, checkpoint, ids, chunk, last_uid, new_last_uid,
                 processed, failed, cats, result, raised, runs, yielded,
                 attempted, persistFailed, handled, enriched, cpWrites,
                 persistCount, aiCalls, batches>>

\* truth value of a configured address: None and "" are false
Truthy(address) == address \notin {"None", ""}

\* a draft test that looks at the categories and not at the address
skip_draft_categories_only(categoryKeys, envelope, user_email) ==
  \E key \in categoryKeys : key \in excluded_categories

\* a draft test that looks at the address and not at the categories
skip_draft_address_only(categoryKeys, envelope, user_email) ==
  /\ user_email # "None"
  /\ user_email \notin (envelope.to \cup envelope.cc \cup envelope.bcc)

\* the skip_draft flag of MailFetcher.run
skip_draft(categoryKeys, envelope, user_email) ==
  LET is_personal ==
        /\ Truthy(user_email)
        /\ \/ user_email \in envelope.to
           \/ user_email \in envelope.cc
           \/ user_email \in envelope.bcc
      excluded == \E key \in categoryKeys : key \in excluded_categories
  IN  IF user_email # "None" THEN excluded \/ ~is_personal ELSE excluded

\* generate_draft and persist_draft inside their try
Draft ==
  /\ pc = "draft"
  /\ IF /\ cfg.drafting_service
        /\ insight # NoInsight
        /\ ~skip_draft(cats, EnvelopeOf(chunk), cfg.user_email)
     THEN /\ enriched' = enriched \cup {chunk}
          /\ \E outcome \in {"persisted", "persist_raises", "nothing"} :
               /\ outcome = "persisted" => drafts[chunk] < MaxRuns
               /\ drafts' = IF outcome = "persisted"
                            THEN [drafts EXCEPT ![chunk] = @ + 1]
                            ELSE drafts
               /\ calls' = calls
                            \o <<CallOn("generate_draft", outcome # "nothing")>>
                            \o (CASE outcome = "persisted" -> <<Call("persist_draft")>>
                                  [] outcome = "persist_raises" ->
                                       <<Failed("persist_draft")>>
                                  [] OTHER -> <<>>)
     ELSE UNCHANGED <<drafts, enriched, calls>>
  /\ pc' = NextStage("draft")
  /\ UNCHANGED <<envVars, optVars, contentHash, emails, insights, insightSource, categories,
                 followUps, checkpoint, ids, chunk, last_uid, new_last_uid,
                 processed, failed, insight, cats, result, raised, runs,
                 yielded, attempted, persistFailed, handled, cpWrites,
                 persistCount, aiCalls, batches>>

\* plan_follow_ups and replace_follow_ups inside their try
FollowUps ==
  /\ pc = "follow_ups"
  /\ IF /\ cfg.follow_up_planner
        /\ insight # NoInsight
        /\ ~(\E key \in cats : key \in excluded_categories)
     THEN /\ enriched' = enriched \cup {chunk}
          /\ \E outcome \in {"replaced", "replace_raises", "nothing"},
                tasks \in PlannerResults :
               /\ outcome # "replaced" => tasks = {}
               /\ followUps' = IF outcome = "replaced"
                               THEN [followUps EXCEPT ![chunk] = tasks]
                               ELSE followUps
               /\ calls' = calls
                            \o <<CallOn("plan_follow_ups", outcome # "nothing")>>
                            \o (CASE outcome = "replaced" ->
                                       <<Call("replace_follow_ups")>>
                                  [] outcome = "replace_raises" ->
                                       <<Failed("replace_follow_ups")>>
                                  [] OTHER -> <<>>)
     ELSE UNCHANGED <<followUps, enriched, calls>>
  /\ pc' = NextStage("follow_ups")
  /\ UNCHANGED <<envVars, optVars, contentHash, emails, insights, insightSource, categories,
                 drafts, checkpoint, ids, chunk, last_uid, new_last_uid,
                 processed, failed, insight, cats, result, raised, runs,
                 yielded, attempted, persistFailed, handled, cpWrites,
                 persistCount, aiCalls, batches>>

\* a loop that keeps the checkpoint in memory until the run is over
AdvanceCheckpointDeferred == UNCHANGED <<checkpoint, cpWrites>>

\* the checkpoint write that ends the handling of a message
AdvanceCheckpoint == upsert_checkpoint(chunk)

\* the test before break: max_messages is set and the count has reached it
ReachedMaxMessages(count) ==
  cfg.max_messages # None /\ count >= cfg.max_messages

\* the end of the loop body: checkpoint, count, max_messages
Advance ==
  /\ pc = "advance"
  /\ new_last_uid' = chunk
  /\ AdvanceCheckpoint
  /\ processed' = processed + 1
  /\ handled' = Append(handled, chunk)
  /\ calls' = <<>>
  /\ pc' = IF ReachedMaxMessages(processed + 1) THEN "finish" ELSE "fetch"
  /\ insight' = NoInsight
  /\ cats' = {}
  /\ UNCHANGED <<envVars, optVars, contentHash, emails, enrichVars, ids,
                 chunk, last_uid, failed, result, raised, runs, yielded,
                 attempted, persistFailed, enriched, persistCount, aiCalls, batches>>

\* a report that gives back the checkpoint read at the start
ReturnStartUid ==
  /\ orchestrator = "MailFetcher"
  /\ \/ pc = "fetch" /\ ids = <<>>
     \/ pc = "finish"
  /\ result' = [processed |-> processed, new_last_uid |-> last_uid,
                returned |-> TRUE]
  /\ pc' = "returned"
  /\ ids' = <<>>
  /\ UNCHANGED <<envVars, optVars, repoVars, chunk, last_uid, new_last_uid,
                 processed, failed, insight, cats, raised, histVars>>

\* the loop is over (the source is exhausted, or break): the report
Return ==
  /\ orchestrator = "MailFetcher"
  /\ \/ pc = "fetch" /\ ids = <<>>
     \/ pc = "finish"
  /\ result' = [processed |-> processed, new_last_uid |-> new_last_uid,
                returned |-> TRUE]
  /\ pc' = "returned"
  /\ ids' = <<>>
  /\ UNCHANGED <<envVars, optVars, repoVars, chunk, last_uid, new_last_uid,
                 processed, failed, insight, cats, raised, histVars>>

Next ==
  \/ Run \/ SourceNext \/ Parse \/ PersistEmail \/ GenerateInsight \/ Categorize
  \/ RegenerateInsight \/ Draft \/ FollowUps \/ Advance \/ Return

Spec == Init /\ [][Next]_vars

(* -------------------------------------------------------------- liveness *)
\* run() is invoked over and over
NextLive == Next \/ RunAgain

\* the search of a run is answered
SearchAnswered == (Run \/ RunAgain) /\ pc' = "fetch"

\* a FETCH of the generator is answered with the message
MessageFetched == SourceNext /\ pc' = "parse"

\* the first insight step ends without an exception
InsightStepReturns == GenerateInsight /\ pc' # "raised"

\* MailFetcher invoked for ever: every call and every step of a call is
\* taken in the end, and the failures that neither the message nor the
\* code decides (the IMAP connection, the read of the stored insight) do
\* not go on for ever.  What run() does with a message that can not be
\* parsed or persisted, and with enrichment that fails, is left open.
LiveSpec ==
  /\ Init
  /\ [][NextLive]_vars
  /\ WF_vars(NextLive)
  /\ SF_vars(SearchAnswered)
  /\ SF_vars(MessageFetched)
  /\ SF_vars(InsightStepReturns)

(* ---------------------------------------------------- OptimizedMailFetcher *)
\* OptimizedMailFetcher.run is called
OptRun == runs < MaxRuns /\ Start("OptimizedMailFetcher")

\* content of the message with UID u
ContentOf(u) == contents[u]

\* "value or ''": None and the empty string both give the empty string
OrEmpty(value) == IF Truthy(value) THEN value ELSE ""

\* _compute_content_hash: SHA-256 of the subject, the sender and the text
\* body, the HTML body standing in for a text body that is missing, each
\* on a line of its own.  Subject and sender are single lines, so the
\* digest is taken to tell the triples apart and nothing more.
compute_content_hash(u) ==
  LET envelope == ContentOf(u)
  IN  <<OrEmpty(envelope.subject),
        OrEmpty(envelope.sender),
        IF Truthy(envelope.text) THEN envelope.text ELSE OrEmpty(envelope.html)>>

\* the fields that the class EmailAnalysis declares
EmailAnalysisFields ==
  {"summary", "priority", "priority_label", "action_items", "categories",
   "follow_ups", "suggested_reply"}

\* an analysis class that declares every attribute _store_analysis reads
store_analysis_never_raises == FALSE

\* _store_analysis builds the insight from analysis.generated_at, and an
\* attribute that the class does not declare raises AttributeError
store_analysis_raises == "generated_at" \notin EmailAnalysisFields

\* the analyses analyze_batch can return for an envelope, by name
AnalysisResults == {"wanted", "unwanted", "silent"}

\* categories, follow-ups and suggested reply of an analysis
Analysis(name) ==
  CASE name = "wanted" ->
         [categories |-> {"work"},
          follow_ups |-> {[action |-> "reply", status |-> "pending"]},
          suggested_reply |-> "reply"]
    [] name = "unwanted" ->
         [categories |-> {"spam"},
          follow_ups |-> {[action |-> "reply", status |-> "pending"]},
          suggested_reply |-> "reply"]
    [] OTHER ->
         [categories |-> {}, follow_ups |-> {}, suggested_reply |-> ""]

\* the skip_draft flag of OptimizedMailFetcher._store_analysis
opt_skip_draft(categoryKeys, envelope, user_email) ==
  LET excluded == \E key \in categoryKeys : key \in excluded_categories
      is_personal == \/ user_email \in envelope.to
                     \/ user_email \in envelope.cc
                     \/ user_email \in envelope.bcc
  IN  IF Truthy(user_email) THEN excluded \/ ~is_personal ELSE excluded

\* _store_analysis past the construction of the insight, for the envelopes
\* given with their analyses: insight, categories and follow-ups are
\* written for each, the draft when skip_draft is false and the analysis
\* suggests a reply
StoreAnalyses(given) ==
  /\ insights' = [u \in UIDs |-> IF u \in DOMAIN given THEN "analysis"
                                 ELSE insights[u]]
  /\ insightSource' = [u \in UIDs |-> IF u \in DOMAIN given THEN u
                                      ELSE insightSource[u]]
  /\ categories' = [u \in UIDs |-> IF u \in DOMAIN given
                                   THEN Analysis(given[u]).categories
                                   ELSE categories[u]]
  /\ followUps' = [u \in UIDs |-> IF u \in DOMAIN given
                                  THEN Analysis(given[u]).follow_ups
                                  ELSE followUps[u]]
  /\ drafts' = [u \in UIDs |->
                 IF /\ u \in DOMAIN given
                    /\ ~opt_skip_draft(Analysis(given[u]).categories,
                                       EnvelopeOf(u), cfg.user_email)
                    /\ Analysis(given[u]).suggested_reply # ""
                    /\ drafts[u] < MaxRuns
                 THEN drafts[u] + 1 ELSE drafts[u]]

\* the content_hash column once update_content_hash has run for the first i
\* envelopes of the batch
HashAfter(i) ==
  [u \in UIDs |-> IF \E j \in 1..i : pending[j] = u /\ u \in emails
                  THEN compute_content_hash(u) ELSE contentHash[u]]

\* a lookup that takes any email that has an insight row
CacheMatchesAnyInsight(i) == {v \in emails : insights[v] # NoInsight}

\* find_cached_analysis for the i-th envelope of the batch: the emails with
\* that content hash that have an insight row
CacheMatches(i) ==
  {v \in emails : /\ insights[v] # NoInsight
                  /\ HashAfter(i)[v] = compute_content_hash(pending[i])}

\* a buffer test that lets one envelope more in
BatchFullLate(length) == length > cfg.analysis_batch_size

\* the test that sends the buffer to _process_batch
BatchFull(length) == length >= cfg.analysis_batch_size

\* persist_email, outside any try, then the buffer
OptPersistEmail ==
  /\ pc = "opt_persist"
  /\ attempted' = attempted \cup {chunk}
  /\ calls' = Append(calls, Call("persist_email"))
  /\ \E ok \in BOOLEAN :
       IF ok
       THEN /\ emails' = emails \cup {chunk}
            /\ persistCount' = [persistCount EXCEPT
                                   ![chunk] = IF @ < MaxRuns THEN @ + 1 ELSE @]
            /\ pending' = Append(pending, chunk)
            /\ pc' = IF BatchFull(Len(pending) + 1)
                     THEN "opt_batch" ELSE "opt_advance"
            /\ batchReturn' = "opt_advance"
            /\ UNCHANGED <<persistFailed, raised, ids, insight, cats>>
       ELSE /\ Raise("persist")
            /\ persistFailed' = persistFailed \cup {chunk}
            /\ UNCHANGED <<emails, persistCount, pending, batchReturn>>
  /\ UNCHANGED <<envVars, enrichVars, checkpoint, contentHash, orchestrator,
                 cached, chunk, last_uid, new_last_uid, processed, failed,
                 result, runs, yielded, handled, enriched, cpWrites, aiCalls, batches>>

\* _process_batch, first loop and the analysis: the content hash of every
\* buffered envelope is stored and looked up; the envelopes that miss are
\* analysed, and storing the first analysis raises; a repository error in
\* the loop ends the run as well.  The envelopes that hit go on to the last
\* loop.
OptBatchLookup ==
  /\ pc = "opt_batch"
  /\ pending # <<>>
  /\ batches' = Append(batches, pending)
  /\ LET n == Len(pending)
         misses == {i \in 1..n : CacheMatches(i) = {}}
         hits == (1..n) \ misses
         analyses_needed ==
           [k \in 1..Cardinality(misses) |->
              pending[CHOOSE i \in misses :
                        Cardinality({j \in misses : j < i}) = k - 1]]
         hit_at(k) == CHOOSE i \in hits : Cardinality({j \in hits : j < i}) = k - 1
     IN  \E repositoryOk \in BOOLEAN :
           IF ~repositoryOk
           THEN /\ Raise("batch")
                /\ UNCHANGED <<contentHash, cached, enriched, calls, pending,
                               enrichVars, aiCalls>>
           ELSE \E results \in [1..Len(analyses_needed) -> AnalysisResults] :
                /\ contentHash' = HashAfter(n)
                /\ aiCalls' = [u \in UIDs |->
                                 IF u \in Range(analyses_needed) /\ aiCalls[u] < MaxRuns
                                 THEN aiCalls[u] + 1 ELSE aiCalls[u]]
                /\ calls' = calls \o [k \in 1..Len(analyses_needed) |->
                                        CallRec("analyze_comprehensive",
                                                analyses_needed[k], TRUE,
                                                results[k])]
                /\ IF misses # {} /\ store_analysis_raises
                   THEN /\ Raise("batch")
                        /\ enriched' = enriched \cup {pending[i] : i \in misses}
                        /\ UNCHANGED <<cached, pending, enrichVars>>
                   ELSE /\ StoreAnalyses(
                             [u \in {pending[i] : i \in misses} |->
                                results[CHOOSE k \in 1..Len(analyses_needed) :
                                          analyses_needed[k] = u]])
                        /\ \E pick \in [hits -> emails] :
                             /\ \A i \in hits : pick[i] \in CacheMatches(i)
                             /\ cached' = [k \in 1..Cardinality(hits) |->
                                             [uid |-> pending[hit_at(k)],
                                              email_uid |-> pick[hit_at(k)],
                                              provider |-> insights[pick[hit_at(k)]],
                                              source |->
                                                insightSource[pick[hit_at(k)]]]]
                        /\ pc' = IF hits = {} THEN batchReturn ELSE "opt_cached"
                        /\ pending' = IF hits = {} THEN <<>> ELSE pending
                        /\ enriched' = enriched \cup {pending[i] : i \in misses}
                        /\ UNCHANGED <<raised, ids, insight, cats>>
  /\ UNCHANGED <<envVars, emails, checkpoint, orchestrator,
                 batchReturn, chunk, last_uid, new_last_uid,
                 processed, failed, result, runs, yielded, attempted,
                 persistFailed, handled, cpWrites, persistCount>>

\* the categories a cache hit stores: the first words of the cached summary
PlaceholderCategories == {"summary-word"}

\* _process_batch, last loop: one cached result is copied to its envelope
\* with persist_insight and replace_categories, neither inside a try; after
\* the last one the batch is over
OptStoreCached ==
  /\ pc = "opt_cached"
  /\ cached # <<>>
  /\ LET uid == Head(cached).uid IN
       /\ enriched' = enriched \cup {uid}
       /\ \E outcome \in {"stored", "insight_raises", "categories_raise"} :
            /\ outcome # "insight_raises" => persist_insight_allowed(uid)
            /\ insights' = IF outcome = "insight_raises" THEN insights
                           ELSE [insights EXCEPT ![uid] = "cached"]
            /\ insightSource' = IF outcome = "insight_raises" THEN insightSource
                                ELSE [insightSource EXCEPT
                                        ![uid] = Head(cached).source]
            /\ categories' = IF outcome = "stored"
                             THEN [categories EXCEPT ![uid] = PlaceholderCategories]
                             ELSE categories
            /\ calls' = calls
                         \o <<CallFor("persist_insight", uid)>>
                         \o (IF outcome # "insight_raises"
                             THEN <<CallFor("replace_categories", uid)>>
                             ELSE <<>>)
            /\ IF outcome = "stored"
               THEN /\ cached' = Tail(cached)
                    /\ pc' = IF Tail(cached) = <<>> THEN batchReturn ELSE "opt_cached"
                    /\ pending' = IF Tail(cached) = <<>> THEN <<>> ELSE pending
                    /\ UNCHANGED <<raised, ids, insight, cats>>
               ELSE /\ Raise("batch")
                    /\ UNCHANGED <<cached, pending>>
  /\ UNCHANGED <<envVars, emails, drafts, followUps, checkpoint, contentHash,
                 orchestrator, batchReturn, chunk, last_uid, new_last_uid,
                 processed, failed, result, runs, yielded, attempted,
                 persistFailed, handled, cpWrites, persistCount, aiCalls, batches>>

\* the end of the loop body: checkpoint, count, max_messages
OptAdvance ==
  /\ pc = "opt_advance"
  /\ new_last_uid' = chunk
  /\ upsert_checkpoint(chunk)
  /\ processed' = processed + 1
  /\ handled' = Append(handled, chunk)
  /\ calls' = <<>>
  /\ pc' = IF ReachedMaxMessages(processed + 1) THEN "opt_finish" ELSE "fetch"
  /\ UNCHANGED <<envVars, emails, enrichVars, contentHash, optVars, ids,
                 chunk, last_uid, failed, insight, cats, result, raised, runs,
                 yielded, attempted, persistFailed, enriched, persistCount, aiCalls, batches>>

\* after the loop: the envelopes still buffered make the final batch
OptFlush ==
  /\ orchestrator = "OptimizedMailFetcher"
  /\ \/ pc = "fetch" /\ ids = <<>>
     \/ pc = "opt_finish"
  /\ pc' = IF pending # <<>> THEN "opt_batch" ELSE "opt_return"
  /\ batchReturn' = "opt_return"
  /\ ids' = <<>>
  /\ UNCHANGED <<envVars, repoVars, orchestrator, pending, cached, chunk,
                 last_uid, new_last_uid, processed, failed, insight, cats,
                 result, raised, histVars>>

\* the report of OptimizedMailFetcher.run
OptReturn ==
  /\ pc = "opt_return"
  /\ result' = [processed |-> processed, new_last_uid |-> new_last_uid,
                returned |-> TRUE]
  /\ pc' = "returned"
  /\ UNCHANGED <<envVars, repoVars, optVars, ids, chunk, last_uid,
                 new_last_uid, processed, failed, insight, cats, raised,
                 histVars>>

NextOpt ==
  \/ OptRun \/ SourceNext \/ Parse \/ OptPersistEmail \/ OptBatchLookup
  \/ OptStoreCached \/ OptAdvance \/ OptFlush \/ OptReturn

\* runs of MailFetcher and of OptimizedMailFetcher over one repository
\* the batched orchestrator reads the contents: every assignment
InitBoth == InitWith(ContentAssignments)

SpecBoth == InitBoth /\ [][Next \/ NextOpt]_vars

(* ------------------------------------------------------ the two draft tests *)
\* the draft tests on their own: any categories, recipients and address
RuleInit ==
  /\ IdleExcept("rule")
  /\ ruleInput \in RuleInputs
  /\ ruleDecision = NoDecision

\* both orchestrators compute skip_draft for the same message and address
DecideDraft ==
  /\ ~ruleDecision.decided
  /\ ruleDecision' =
       [decided |-> TRUE,
        MailFetcher |-> ~skip_draft(ruleInput.categories, ruleInput,
                                    ruleInput.user_email),
        OptimizedMailFetcher |-> ~opt_skip_draft(ruleInput.categories, ruleInput,
                                                 ruleInput.user_email)]
  /\ UNCHANGED <<besidesRule, ruleInput>>

RuleSpec == RuleInit /\ [][DecideDraft]_vars

(* ------------------------------------------------- the dashboard's POST /sync *)
RATE_LIMIT_MAX_CALLS == 2
RATE_LIMIT_WINDOW_SECONDS == 60

\* the rate history after the entries older than the window are dropped from
\* its left end
RECURSIVE PruneHistory(_, _)
PruneHistory(history, now) ==
  IF history # <<>> /\ now - Head(history) > RATE_LIMIT_WINDOW_SECONDS
  THEN PruneHistory(Tail(history), now)
  ELSE history

\* the test that turns a request away
RateLimited(history) == Len(history) >= RATE_LIMIT_MAX_CALLS

\* the stages of a request whose _run_sync_cycle thread is alive
ActiveStages == {"connect", "run"}
ActiveSyncs == {r \in 1..MaxRequests : syncs[r].stage \in ActiveStages}

WebInit ==
  /\ IdleExcept("web")
  /\ WebIdle

\* time.monotonic() moves on
Tick ==
  /\ clock < MaxTicks * TickSeconds
  /\ clock' = clock + TickSeconds
  /\ UNCHANGED <<besidesWeb, sync_rate_history, syncCheckpoint, syncs,
                 syncWrites>>

\* POST /sync with IMAP credentials configured: the rate limit, then
\* asyncio.create_task(run_sync()), which starts _run_sync_cycle on a thread
trigger_sync(r) ==
  /\ syncs[r].stage = "unsent"
  /\ LET pruned == PruneHistory(sync_rate_history, clock) IN
       IF RateLimited(pruned)
       THEN /\ sync_rate_history' = pruned
            /\ syncs' = [syncs EXCEPT ![r].stage = "limited"]
       ELSE /\ sync_rate_history' = Append(pruned, clock)
            /\ syncs' = [syncs EXCEPT ![r].stage = "connect"]
  /\ UNCHANGED <<besidesWeb, clock, syncCheckpoint, syncWrites>>

\* _run_sync_cycle opens its own repository and mailbox, and MailFetcher.run
\* reads the checkpoint of the mailbox
SyncReadCheckpoint(r) ==
  /\ syncs[r].stage = "connect"
  /\ syncs' = [syncs EXCEPT ![r].stage = "run", ![r].last_uid = syncCheckpoint]
  /\ UNCHANGED <<besidesWeb, clock, sync_rate_history, syncCheckpoint,
                 syncWrites>>

\* the run handles its next message and writes the checkpoint
SyncWriteCheckpoint(r) ==
  /\ syncs[r].stage = "run"
  /\ syncs[r].written < MessagesPerSync
  /\ syncCheckpoint' = syncs[r].last_uid + syncs[r].written + 1
  /\ syncs' = [syncs EXCEPT ![r].written = @ + 1]
  /\ syncWrites' = Append(syncWrites, [run |-> r, uid |-> syncCheckpoint'])
  /\ UNCHANGED <<besidesWeb, clock, sync_rate_history>>

\* the run returns and the thread ends
SyncFinish(r) ==
  /\ syncs[r].stage = "run"
  /\ syncs[r].written = MessagesPerSync
  /\ syncs' = [syncs EXCEPT ![r].stage = "finished"]
  /\ UNCHANGED <<besidesWeb, clock, sync_rate_history, syncCheckpoint,
                 syncWrites>>

WebNext ==
  \/ Tick
  \/ \E r \in 1..MaxRequests : trigger_sync(r)
  \/ \E r \in 1..MaxRequests : SyncReadCheckpoint(r)
  \/ \E r \in 1..MaxRequests : SyncWriteCheckpoint(r)
  \/ \E r \in 1..MaxRequests : SyncFinish(r)

WebSpec == WebInit /\ [][WebNext]_vars

(* ------------------------------------------- SqliteEmailRepository on its own *)
\* the mailboxes settings.imap.mailboxes names
Mailboxes == {"INBOX", "Archive"}

\* attachment lists, category sequences and planned actions of the inputs
AttachmentLists == {<<>>, <<"a.pdf">>, <<"b.png", "c.txt">>}
CategoryLists == {<<>>, <<"work">>, <<"newsletter", "finance">>}
ActionLists == {<<>>, <<"Send notes", "Book meeting">>, <<"Send summary">>}

\* the envelopes the parser hands over, and one with no mailbox name
Envelopes ==
  [uid : UIDs, mailbox : Mailboxes, subject : {"first", "second"},
   attachments : AttachmentLists]
  \cup {[uid |-> 1, mailbox |-> "", subject |-> "first", attachments |-> <<>>]}

\* the values a status form field of the dashboard can carry
StatusInputs == {"done", "DONE", "open", "pending"}

\* str.lower() on the status values
Lower(value) == IF value = "DONE" THEN "done" ELSE value

\* a form handler that stores the status as it was sent
normalize_status_update_unchecked(value) == value

\* _normalize_status_update
normalize_status_update(value) == IF Lower(value) = "done" THEN "done" ELSE "open"

\* the stored rows of a table that belong to the email
RowsOf(rows, uid) == {r \in rows : r.email_uid = uid}

\* DELETE that removes nothing
DeleteNothing(rows, uid) == rows

\* DELETE FROM <table> WHERE email_uid = ?
DeleteFor(rows, uid) == {r \in rows : r.email_uid # uid}

\* an upsert whose conflict target also names the mailbox
ConflictRowsByMailbox(rows, email) ==
  {r \in rows : r.uid = email.uid /\ r.mailbox = email.mailbox}

\* the rows ON CONFLICT(uid) finds for the email
ConflictRows(rows, email) == {r \in rows : r.uid = email.uid}

\* the stored envelopes with the UID
EmailsWith(uid) == {r \in tblEmails : r.uid = uid}

\* the mailbox of the envelope stored under the UID
MailboxOf(uid) == (CHOOSE r \in EmailsWith(uid) : TRUE).mailbox

\* the operation makes the next entry of the history
Logged(name, uid, ok, deleted) ==
  /\ repoOps < MaxRepoOps
  /\ repoOps' = repoOps + 1
  /\ lastOp' = Op(name, uid, ok, deleted)

RepoInit ==
  /\ IdleExcept("sql")
  /\ SqlIdle

\* persist_email: the two required fields, the upsert of the emails row,
\* DELETE of the old attachment rows and INSERT of the new ones
persist_email(email) ==
  IF email.uid = 0 \/ email.mailbox = ""
  THEN /\ Logged("persist_email", email.uid, FALSE, 0)
       /\ UNCHANGED <<besidesSql, tblEmails, tblAttachments,
                      tblInsights, tblDrafts, tblCategories, tblFollowUps,
                      nextFollowUpId, enrichedOf, persistedFrom>>
  ELSE /\ Logged("persist_email", email.uid, TRUE,
                 Cardinality(RowsOf(tblAttachments, email.uid)))
       /\ tblEmails' = (tblEmails \ ConflictRows(tblEmails, email))
                         \cup {[uid |-> email.uid, mailbox |-> email.mailbox,
                                subject |-> email.subject]}
       /\ tblAttachments' =
            DeleteFor(tblAttachments, email.uid)
              \cup {[email_uid |-> email.uid, filename |-> email.attachments[i]] :
                      i \in 1..Len(email.attachments)}
       /\ persistedFrom' = persistedFrom \cup {<<email.mailbox, email.uid>>}
       /\ UNCHANGED <<besidesSql, tblInsights, tblDrafts,
                      tblCategories, tblFollowUps, nextFollowUpId, enrichedOf>>

\* persist_insight: ValueError when no emails row has the UID
persist_insight(uid) ==
  IF EmailsWith(uid) = {}
  THEN /\ Logged("persist_insight", uid, FALSE, 0)
       /\ UNCHANGED <<besidesSql, tblEmails, tblAttachments,
                      tblInsights, tblDrafts, tblCategories, tblFollowUps,
                      nextFollowUpId, enrichedOf, persistedFrom>>
  ELSE /\ Logged("persist_insight", uid, TRUE, 0)
       /\ tblInsights' = [tblInsights EXCEPT ![uid] = "summary"]
       /\ enrichedOf' = [enrichedOf EXCEPT ![uid] = MailboxOf(uid)]
       /\ UNCHANGED <<besidesSql, tblEmails, tblAttachments,
                      tblDrafts, tblCategories, tblFollowUps, nextFollowUpId,
                      persistedFrom>>

\* persist_draft for a stored email: one more drafts row
persist_draft(uid) ==
  /\ EmailsWith(uid) # {}
  /\ Logged("persist_draft", uid, TRUE, 0)
  /\ tblDrafts' = [tblDrafts EXCEPT ![uid] = @ + 1]
  /\ enrichedOf' = [enrichedOf EXCEPT ![uid] = MailboxOf(uid)]
  /\ UNCHANGED <<besidesSql, tblEmails, tblAttachments,
                 tblInsights, tblCategories, tblFollowUps, nextFollowUpId,
                 persistedFrom>>

\* replace_categories for a stored email: DELETE, then INSERT per category
replace_categories(uid, cs) ==
  /\ EmailsWith(uid) # {}
  /\ Logged("replace_categories", uid, TRUE, Cardinality(RowsOf(tblCategories, uid)))
  /\ tblCategories' =
       DeleteFor(tblCategories, uid)
         \cup {[email_uid |-> uid, category_key |-> cs[i]] : i \in 1..Len(cs)}
  /\ enrichedOf' = [enrichedOf EXCEPT ![uid] = MailboxOf(uid)]
  /\ UNCHANGED <<besidesSql, tblEmails, tblAttachments,
                 tblInsights, tblDrafts, tblFollowUps, nextFollowUpId, persistedFrom>>

\* the rows replace_follow_ups inserts: every task with the status and the
\* completed_at it carries, under the next ids
FollowUpRows(uid, actions, status) ==
  {[id |-> nextFollowUpId + i - 1, email_uid |-> uid, action |-> actions[i],
    status |-> status, completed_at |-> "None"] : i \in 1..Len(actions)}

\* MailFetcher.run stores what plan_follow_ups returns (status "open",
\* completed_at None) with replace_follow_ups: DELETE, then INSERT per task
replace_follow_ups(uid, actions) ==
  /\ EmailsWith(uid) # {}
  /\ Logged("replace_follow_ups", uid, TRUE, Cardinality(RowsOf(tblFollowUps, uid)))
  /\ tblFollowUps' = DeleteFor(tblFollowUps, uid) \cup FollowUpRows(uid, actions, "open")
  /\ nextFollowUpId' = nextFollowUpId + Len(actions)
  /\ enrichedOf' = [enrichedOf EXCEPT ![uid] = MailboxOf(uid)]
  /\ UNCHANGED <<besidesSql, tblEmails, tblAttachments,
                 tblInsights, tblDrafts, tblCategories, persistedFrom>>

\* OptimizedMailFetcher._store_analysis for a stored email: its tasks carry
\* the status "pending"; the method raises before it writes anything
store_analysis_follow_ups(uid, actions) ==
  /\ EmailsWith(uid) # {}
  /\ IF store_analysis_raises
     THEN /\ Logged("_store_analysis", uid, FALSE, 0)
          /\ UNCHANGED <<tblFollowUps, nextFollowUpId, enrichedOf>>
     ELSE /\ Logged("_store_analysis", uid, TRUE,
                    Cardinality(RowsOf(tblFollowUps, uid)))
          /\ tblFollowUps' =
               DeleteFor(tblFollowUps, uid) \cup FollowUpRows(uid, actions, "pending")
          /\ nextFollowUpId' = nextFollowUpId + Len(actions)
          /\ enrichedOf' = [enrichedOf EXCEPT ![uid] = MailboxOf(uid)]
  /\ UNCHANGED <<besidesSql, tblEmails, tblAttachments,
                 tblInsights, tblDrafts, tblCategories, persistedFrom>>

\* update_follow_up_status: UPDATE ... WHERE id = ?, completed_at set to now
\* for "done" and to NULL otherwise; the history names the caller
update_follow_up_status(caller, follow_up_id, status) ==
  /\ Logged(caller, follow_up_id, TRUE, 0)
  /\ tblFollowUps' =
       {IF r.id = follow_up_id
        THEN [r EXCEPT !.status = status,
                       !.completed_at = IF status = "done" THEN "now" ELSE "None"]
        ELSE r : r \in tblFollowUps}
  /\ UNCHANGED <<besidesSql, tblEmails, tblAttachments,
                 tblInsights, tblDrafts, tblCategories, nextFollowUpId, enrichedOf,
                 persistedFrom>>

\* POST /follow-ups/{id}/status of the dashboard
PostFollowUpStatus(follow_up_id, status_value) ==
  update_follow_up_status("POST /follow-ups/status", follow_up_id,
                          normalize_status_update(status_value))

\* inbox-ai follow-ups --complete / --reopen
RunFollowUps(follow_up_id, complete) ==
  update_follow_up_status("inbox-ai follow-ups", follow_up_id,
                          IF complete THEN "done" ELSE "open")

\* the ids a request can name: the stored ones and one that is not stored
FollowUpIds == 1..nextFollowUpId

RepoNext ==
  \/ \E email \in Envelopes : persist_email(email)
  \/ \E u \in UIDs : persist_insight(u)
  \/ \E u \in UIDs : persist_draft(u)
  \/ \E u \in UIDs, cs \in CategoryLists : replace_categories(u, cs)
  \/ \E u \in UIDs, actions \in ActionLists : replace_follow_ups(u, actions)
  \/ \E u \in UIDs, actions \in ActionLists : store_analysis_follow_ups(u, actions)
  \/ \E id \in FollowUpIds, value \in StatusInputs : PostFollowUpStatus(id, value)
  \/ \E id \in FollowUpIds, complete \in BOOLEAN : RunFollowUps(id, complete)

RepoSpec == RepoInit /\ [][RepoNext]_vars

(* ------------------------------------------------------ OllamaClient.generate *)
\* the delay is never longer than this
MaxDelay == 8

\* the attempts of the loop: range(1, 4)
Attempts == 1..3

\* the answers httpx.post, raise_for_status and response.json() can give:
\* an httpx.HTTPError (no connection, a timeout, an error status), a body
\* that is not JSON, and a JSON body: an object with a string under
\* "response", an object without one, null, or a value that is no object
Answers == {"HTTPError", "JSONDecodeError", "object", "object_without_response",
            "null", "array"}

\* 2**n
RECURSIVE Pow2(_)
Pow2(n) == IF n = 0 THEN 1 ELSE 2 * Pow2(n - 1)

Min(a, b) == IF a <= b THEN a ELSE b

\* if attempt < 3
SleepsAfter(n) == n < 3

\* delay = min(2**attempt, 8)
Delay(n) == Min(Pow2(n), MaxDelay)

\* the payload of the request
Payload(call) ==
  [prompt |-> call.prompt, stream |-> FALSE,
   num_predict |-> call.max_output_tokens]

LlmInit ==
  /\ IdleExcept("llm")
  /\ llmCall \in LlmCalls
  /\ NoCallYet

\* generate is entered: endpoint, payload, and the loop starts
LlmEnter ==
  /\ llmPc = "start"
  /\ attempt' = 1
  /\ llmPc' = "post"
  /\ UNCHANGED <<besidesLlm, llmCall, data, llmOutcome,
                 posts, slept>>

\* the end of an iteration that has not left the loop: the sleep when there
\* is one, then the next attempt or the end of the loop
NextAttempt ==
  /\ slept' = IF SleepsAfter(attempt) THEN Append(slept, Delay(attempt)) ELSE slept
  /\ IF attempt + 1 \in Attempts
     THEN attempt' = attempt + 1 /\ llmPc' = "post"
     ELSE attempt' = attempt /\ llmPc' = "after_loop"

\* one iteration: httpx.post, raise_for_status, response.json()
HttpPost(answer) ==
  /\ llmPc = "post"
  /\ posts' = Append(posts, [payload |-> Payload(llmCall), answer |-> answer])
  /\ CASE answer = "HTTPError" ->
            /\ NextAttempt
            /\ UNCHANGED <<data, llmOutcome>>
       [] answer = "JSONDecodeError" ->
            /\ llmPc' = "done"
            /\ llmOutcome' = "LLMError"
            /\ UNCHANGED <<attempt, data, slept>>
       [] OTHER ->
            /\ data' = IF answer = "null" THEN "None" ELSE answer
            /\ llmPc' = "after_loop"
            /\ UNCHANGED <<attempt, llmOutcome, slept>>
  /\ UNCHANGED <<besidesLlm, llmCall>>

\* after the loop: LLMError when data is None, data.get("response"), which
\* an array does not have, LLMError when the result is no string
LlmFinish ==
  /\ llmPc = "after_loop"
  /\ llmPc' = "done"
  /\ llmOutcome' =
       CASE data = "None" -> "LLMError"
         [] data = "array" -> "AttributeError"
         [] data = "object_without_response" -> "LLMError"
         [] OTHER -> "result"
  /\ UNCHANGED <<besidesLlm, llmCall, attempt, data,
                 posts, slept>>

LlmNext ==
  \/ LlmEnter
  \/ \E answer \in Answers : HttpPost(answer)
  \/ LlmFinish

LlmSpec == LlmInit /\ [][LlmNext]_vars

(* ------------------------------------------------ the intelligence services *)
\* what LLMClient.generate and the parsing of its text end in for the two
\* services that expect a JSON object: json.loads raises JSONDecodeError (a
\* ValueError), a missing field raises ValueError, payload.get on a list
\* raises AttributeError
ParseOutcome(response) ==
  CASE response = "LLMError" -> "LLMError"
    [] response = "not_json" -> "ValueError"
    [] response = "object_without_field" -> "ValueError"
    [] response = "array" -> "AttributeError"
    [] OTHER -> "None"

\* a handler that lets ValueError through
CaughtErrorsLLMOnly == {"LLMError"}

\* except (LLMError, ValueError)
CaughtErrors == {"LLMError", "ValueError"}

ServiceResult(exception, provider, content, used_fallback) ==
  [ended |-> TRUE, raised |-> exception, provider |-> provider, content |-> content,
   used_fallback |-> used_fallback]

\* SummarizationService.generate_insight with an AI client configured
generate_insight(input) ==
  LET error == ParseOutcome(input.response)
      llmSummary == IF error = "None" /\ input.response = "as_asked"
                    THEN "llm" ELSE "None"
  IN  IF error \notin CaughtErrors \cup {"None"}
      THEN ServiceResult("InsightError", "None", "None", FALSE)
      ELSE IF llmSummary = "None" /\ input.fallback_enabled
      THEN ServiceResult("None", "deterministic", "deterministic", TRUE)
      ELSE IF llmSummary = "None"
      THEN ServiceResult("None", IF error = "None" THEN "ollama" ELSE "none",
                         "No summary available.", FALSE)
      ELSE ServiceResult("None", "ollama", "llm", FALSE)

\* DraftingService.generate_draft with an AI client configured
generate_draft(input) ==
  LET error == ParseOutcome(input.response)
      llmBody == IF error = "None" /\ input.response = "as_asked"
                 THEN "llm" ELSE "None"
  IN  IF error \notin CaughtErrors \cup {"None"}
      THEN ServiceResult(error, "None", "None", FALSE)
      ELSE IF llmBody = "None" /\ input.fallback_enabled
      THEN ServiceResult("None", "deterministic", "deterministic", TRUE)
      ELSE IF llmBody = "None"
      THEN ServiceResult("DraftingError", "None", "None", FALSE)
      ELSE ServiceResult("None", "ollama", "llm", FALSE)

\* LLMCategoryService.categorize: any exception gives the keyword
\* categories, JSON that is no list gives no category, a list gives the
\* categories whose keys it names
categorize(input) ==
  IF input.response \in {"LLMError", "not_json"}
  THEN ServiceResult("None", "keyword", "deterministic", TRUE)
  ELSE IF input.response \in {"object_without_field", "empty_text"}
  THEN ServiceResult("None", "none", "None", FALSE)
  ELSE ServiceResult("None", "ollama", "llm", FALSE)

SvcInit ==
  /\ IdleExcept("svc")
  /\ svcInput \in ServiceInputs
  /\ svcResult = NoServiceResult

\* the orchestrator calls the service
CallService ==
  /\ ~svcResult.ended
  /\ svcResult' =
       CASE svcInput.service = "SummarizationService" -> generate_insight(svcInput)
         [] svcInput.service = "DraftingService" -> generate_draft(svcInput)
         [] OTHER -> categorize(svcInput)
  /\ UNCHANGED <<besidesSvc, svcInput>>

SvcSpec == SvcInit /\ [][CallService]_vars

(* --------------------------------------- the metrics of OptimizedMailFetcher *)
\* _process_batch for every envelope of a buffer: find_cached_analysis finds
\* an insight, or the analyzer is called and its composite AI call gives an
\* analysis, or that call fails and the analyzer gives its fallback analysis
EnvelopeOutcomes == {"hit", "analysed", "fallback"}
Buffers == UNION {[1..n -> EnvelopeOutcomes] : n \in 1..MaxBatchEnvelopes}

\* the envelopes of a buffer with one of the given outcomes
CountOf(buffer, outcomes) ==
  Cardinality({i \in DOMAIN buffer : buffer[i] \in outcomes})

\* LLMMetrics.merge: every counter of the other object is added
merge(mine, other) ==
  [total_calls |-> mine.total_calls + other.total_calls,
   cache_hits |-> mine.cache_hits + other.cache_hits,
   cache_misses |-> mine.cache_misses + other.cache_misses]

\* the metrics on their own
MetInit ==
  /\ IdleExcept("met")
  /\ MetIdle

\* OptimizedMailFetcher(..., analyzer, ...) and the entry of run(): the
\* fetcher starts its own LLMMetrics, and the analyzer it is given is a new
\* one or the one an earlier fetcher was given
MetStart(analyzer_is_new) ==
  /\ metPc \in {"none", "returned", "raised"}
  /\ tally.fetchers < MaxFetchers
  /\ fetcherMetrics' = NewMetrics
  /\ analyzerMetrics' = IF analyzer_is_new THEN NewMetrics ELSE analyzerMetrics
  /\ metPc' = "running"
  /\ tally' = [NoTally EXCEPT !.fetchers = tally.fetchers + 1]
  /\ UNCHANGED besidesMet

\* _process_batch: the fetcher counts a hit or a miss for every envelope,
\* analyze_comprehensive counts a miss for every envelope it is given and a
\* call for every AI call that succeeds, _store_analysis is applied to the
\* analysed envelopes, and the analyzer's metrics are merged at the end
process_batch(buffer) ==
  LET hits == CountOf(buffer, {"hit"})
      misses == CountOf(buffer, {"analysed", "fallback"})
      succeeded == CountOf(buffer, {"analysed"})
      counted == [fetcherMetrics EXCEPT !.cache_hits = @ + hits,
                                        !.cache_misses = @ + misses]
      analyzerAfter == [analyzerMetrics EXCEPT !.cache_misses = @ + misses,
                                               !.total_calls = @ + succeeded]
  IN  /\ metPc = "running"
      /\ tally.batches < MaxBatches
      /\ analyzerMetrics' = analyzerAfter
      /\ tally' = [tally EXCEPT !.enriched = @ + Len(buffer),
                                !.sent = @ + misses,
                                !.calls = @ + succeeded,
                                !.batches = @ + 1]
      /\ IF misses > 0 /\ store_analysis_raises
         THEN /\ fetcherMetrics' = counted
              /\ metPc' = "raised"
         ELSE /\ fetcherMetrics' = merge(counted, analyzerAfter)
              /\ metPc' = "running"
      /\ UNCHANGED besidesMet

\* run() returns the report and the fetcher's metrics
MetReturn ==
  /\ metPc = "running"
  /\ metPc' = "returned"
  /\ UNCHANGED <<besidesMet, fetcherMetrics, analyzerMetrics, tally>>

MetNext ==
  \/ \E analyzer_is_new \in BOOLEAN : MetStart(analyzer_is_new)
  \/ \E buffer \in Buffers : process_batch(buffer)
  \/ MetReturn

MetSpec == MetInit /\ [][MetNext]_vars

(* ------------------------------------------- the dashboard's response cache *)
\* the text that make_key joins from its parts for GET / with the default
\* limit, no category, follow_only off, and the given priority filter and
\* sync_status query parameter
DashboardRequests == {"all", "high", "all_after_sync"}
Combined(request) ==
  CASE request = "all" -> "dashboard|20|all|None|False|None|None|None"
    [] request = "high" -> "dashboard|20|high|None|False|None|None|None"
    [] OTHER -> "dashboard|20|all|None|False|None|ok|None"

\* hashlib.md5(...).hexdigest() of the three texts, character by character
md5(combined) ==
  CASE combined = "dashboard|20|all|None|False|None|None|None" ->
         <<"5", "d", "5", "2", "2", "f", "4", "7", "5", "8", "8", "8", "e", "2",
           "a", "4", "6", "0", "9", "8", "d", "d", "5", "1", "6", "1", "1", "f",
           "3", "7", "3", "8">>
    [] combined = "dashboard|20|high|None|False|None|None|None" ->
         <<"4", "8", "3", "0", "2", "c", "f", "5", "f", "7", "7", "1", "4", "8",
           "f", "4", "6", "4", "b", "9", "2", "d", "4", "c", "8", "f", "3", "3",
           "4", "f", "1", "2">>
    [] OTHER ->
         <<"b", "a", "0", "8", "0", "f", "3", "1", "f", "f", "4", "9", "3", "7",
           "5", "a", "c", "6", "5", "8", "d", "6", "e", "a", "c", "b", "d", "5",
           "e", "3", "f", "e">>

\* SimpleCache.make_key for the request
make_key(request) == md5(Combined(request))

\* the pattern the handlers pass to invalidate, character by character
DashboardPattern == <<"d", "a", "s", "h", "b", "o", "a", "r", "d">>

\* "pattern in k" on strings
Contains(pattern, k) ==
  \E i \in 0..(Len(k) - Len(pattern)) : SubSeq(k, i + 1, i + Len(pattern)) = pattern

\* SimpleCache.invalidate with a pattern: the entries left in the cache
invalidate(pattern) ==
  {entry \in cacheEntries : ~Contains(pattern, entry.key)}

\* CacheEntry.is_expired
is_expired(entry) == cacheNow > entry.expires_at

\* the cache on its own
CacheInit ==
  /\ IdleExcept("cache")
  /\ CacheIdle

\* GET / without a status message: the cached response when there is one
\* that has not expired, else a response rendered from the repository and
\* stored for DashboardTtl seconds; with a status message the response is
\* rendered and not stored
index(request) ==
  LET key == make_key(request)
      found == {entry \in cacheEntries : entry.key = key}
      live == {entry \in found : ~is_expired(entry)}
  IN  /\ IF live # {}
         THEN /\ served' = [request |-> request,
                            version |-> (CHOOSE entry \in live : TRUE).version,
                            from_cache |-> TRUE]
              /\ UNCHANGED cacheEntries
         ELSE /\ served' = [request |-> request, version |-> dataVersion,
                            from_cache |-> FALSE]
              /\ cacheEntries' =
                   (cacheEntries \ found) \cup
                   (IF request = "all_after_sync" THEN {}
                    ELSE {[key |-> key, version |-> dataVersion,
                           expires_at |-> cacheNow + DashboardTtl]})
      /\ UNCHANGED <<besidesCache, cacheNow, dataVersion, lastChange>>

\* a handler that changes what the dashboard shows and then calls
\* response_cache.invalidate("dashboard"): run_sync, delete_email after a
\* successful delete, set_preference
ChangeHandlers == {"run_sync", "delete_email", "set_preference"}
ChangeAndInvalidate(handler) ==
  /\ dataVersion < MaxChanges
  /\ dataVersion' = dataVersion + 1
  /\ cacheEntries' = invalidate(DashboardPattern)
  /\ lastChange' = handler
  /\ UNCHANGED <<besidesCache, cacheNow, served>>

\* time passes
CacheTick ==
  /\ cacheNow < MaxCacheTicks * CacheTickSeconds
  /\ cacheNow' = cacheNow + CacheTickSeconds
  /\ UNCHANGED <<besidesCache, cacheEntries, dataVersion, served, lastChange>>

CacheNext ==
  \/ \E request \in DashboardRequests : index(request)
  \/ \E handler \in ChangeHandlers : ChangeAndInvalidate(handler)
  \/ CacheTick

CacheSpec == CacheInit /\ [][CacheNext]_vars

(* ------------------------------------------------------------ ConnectionPool *)
\* pools of every size up to MaxPoolSize
PoolInit ==
  /\ IdleExcept("pool")
  /\ \E n \in 1..MaxPoolSize : PoolOfSize(n)

\* the caller's position, variable and exception after a step
CallerAt(c, position, connection, exception) ==
  /\ callerPc' = [callerPc EXCEPT ![c] = position]
  /\ repository' = [repository EXCEPT ![c] = connection]
  /\ acquireRaised' = [acquireRaised EXCEPT ![c] = exception]

\* acquire / acquire_async, first statement: a closed pool raises
AcquireEnter(c) ==
  /\ callerPc[c] = "idle"
  /\ IF poolClosed
     THEN CallerAt(c, "idle", NoConnection, "RuntimeError")
     ELSE CallerAt(c, "get", NoConnection, "None")
  /\ UNCHANGED <<besidesPool, pool_size, poolQueue, created_count, poolClosed,
                 connStatus, closeCalls>>

\* self._pool.get: the head of the queue; on an empty queue the timeout can
\* run out, and the finally block has nothing to give back
PoolGet(c) ==
  /\ callerPc[c] = "get"
  /\ IF poolQueue # <<>>
     THEN /\ CallerAt(c, "validate", Head(poolQueue), "None")
          /\ poolQueue' = Tail(poolQueue)
     ELSE /\ CallerAt(c, "idle", NoConnection, "TimeoutError")
          /\ UNCHANGED poolQueue
  /\ UNCHANGED <<besidesPool, pool_size, created_count, poolClosed, connStatus,
                 closeCalls>>

\* _validate_connection, and for a connection that fails it close() and
\* _create_connection: the new connection is put in the queue and assigned
\* to repository; on a closed pool _create_connection raises and the finally
\* block has the old connection to give back
Validate(c) ==
  /\ callerPc[c] = "validate"
  /\ \E healthy \in IF connStatus[repository[c]] = "open" THEN BOOLEAN ELSE {FALSE} :
       IF healthy
       THEN /\ CallerAt(c, "holding", repository[c], "None")
            /\ UNCHANGED <<poolQueue, created_count, connStatus>>
       ELSE IF poolClosed
            THEN /\ connStatus' = [connStatus EXCEPT ![repository[c]] = "closed"]
                 /\ CallerAt(c, "put", repository[c], "RuntimeError")
                 /\ UNCHANGED <<poolQueue, created_count>>
            ELSE /\ created_count < MaxPoolSize + MaxReplacements
                 /\ Len(poolQueue) < pool_size
                 /\ connStatus' = [connStatus EXCEPT ![repository[c]] = "closed",
                                                     ![created_count + 1] = "open"]
                 /\ poolQueue' = Append(poolQueue, created_count + 1)
                 /\ created_count' = created_count + 1
                 /\ CallerAt(c, "reget", created_count + 1, "None")
  /\ UNCHANGED <<besidesPool, pool_size, poolClosed, closeCalls>>

\* the second self._pool.get, after a replacement: the head of the queue; on
\* an empty queue the timeout can run out, and the finally block gives back
\* the connection that _create_connection returned
ReGet(c) ==
  /\ callerPc[c] = "reget"
  /\ IF poolQueue # <<>>
     THEN /\ CallerAt(c, "holding", Head(poolQueue), "None")
          /\ poolQueue' = Tail(poolQueue)
     ELSE /\ CallerAt(c, "put", repository[c], "TimeoutError")
          /\ UNCHANGED poolQueue
  /\ UNCHANGED <<besidesPool, pool_size, created_count, poolClosed, connStatus,
                 closeCalls>>

\* the caller's with block ends
Leave(c) ==
  /\ callerPc[c] = "holding"
  /\ CallerAt(c, "put", repository[c], acquireRaised[c])
  /\ UNCHANGED <<besidesPool, pool_size, poolQueue, created_count, poolClosed,
                 connStatus, closeCalls>>

\* the finally block: self._pool.put(repository), which waits while the
\* queue holds pool_size items
PoolPut(c) ==
  /\ callerPc[c] = "put"
  /\ Len(poolQueue) < pool_size
  /\ poolQueue' = Append(poolQueue, repository[c])
  /\ CallerAt(c, "idle", NoConnection, acquireRaised[c])
  /\ UNCHANGED <<besidesPool, pool_size, created_count, poolClosed, connStatus,
                 closeCalls>>

\* close(): nothing on a closed pool; else _closed is set and every
\* connection in the queue is taken out and closed
PoolClose ==
  /\ closeCalls < MaxCloseCalls
  /\ closeCalls' = closeCalls + 1
  /\ IF poolClosed
     THEN UNCHANGED <<poolClosed, poolQueue, connStatus>>
     ELSE /\ poolClosed' = TRUE
          /\ poolQueue' = <<>>
          /\ connStatus' = [r \in ConnectionIds |->
                              IF r \in Range(poolQueue) THEN "closed"
                              ELSE connStatus[r]]
  /\ UNCHANGED <<besidesPool, pool_size, created_count, callerPc, repository,
                 acquireRaised>>

PoolNext ==
  \/ \E c \in PoolCallers :
       \/ AcquireEnter(c) \/ PoolGet(c) \/ Validate(c) \/ ReGet(c)
       \/ Leave(c) \/ PoolPut(c)
  \/ PoolClose

PoolSpec == PoolInit /\ [][PoolNext]_vars

(* ---------------------------------------------- checkpoints of several mailboxes *)
\* SELECT mailbox, last_uid FROM sync_state WHERE mailbox = ?
SelectSyncState(mailbox) == {row \in sync_state : row.mailbox = mailbox}

\* get_checkpoint: last_uid of the row, None when there is no row
get_checkpoint(mailbox) ==
  IF SelectSyncState(mailbox) = {} THEN None
  ELSE (CHOOSE row \in SelectSyncState(mailbox) : TRUE).last_uid

\* an upsert whose conflict target is the whole table: one row at most
SyncStateConflictsAll(mailbox) == sync_state

\* ON CONFLICT(mailbox): the rows the new row takes the place of
SyncStateConflicts(mailbox) == {row \in sync_state : row.mailbox = mailbox}

\* upsert_checkpoint: INSERT ... ON CONFLICT(mailbox) DO UPDATE SET last_uid
upsert_sync_state(mailbox, uid) ==
  /\ sync_state' = (sync_state \ SyncStateConflicts(mailbox))
                     \cup {[mailbox |-> mailbox, last_uid |-> uid]}
  /\ rowsWritten' = rowsWritten \cup {row.mailbox : row \in SyncStateConflicts(mailbox)}
                      \cup {mailbox}

\* the UIDs fetch_since yields from a mailbox whose highest UID is top
SearchFrom(top, start) ==
  IF top = 0 THEN <<>>
  ELSE LET lo == IF start <= top THEN start ELSE top
       IN  [i \in 1..(top - lo + 1) |-> lo + i - 1]

\* the runs for several mailboxes on their own
MbxInit ==
  /\ IdleExcept("mbx")
  /\ MbxIdle

\* run() up to the loop, for a client of the given mailbox whose highest
\* UID on the server is top: get_checkpoint(mailbox_name), then the search
MbxStart(mailbox, top) ==
  /\ mbxRun.stage = "idle"
  /\ mbxRuns < MaxMailboxRuns
  /\ mbxRuns' = mbxRuns + 1
  /\ mbxRun' = [mailbox |-> mailbox, stage |-> "running",
                last_uid |-> get_checkpoint(mailbox),
                todo |-> SearchFrom(top, StartUid(get_checkpoint(mailbox)))]
  /\ stateAtStart' = sync_state
  /\ rowsRead' = {row.mailbox : row \in SelectSyncState(mailbox)}
  /\ rowsWritten' = {}
  /\ UNCHANGED <<besidesMbx, sync_state>>

\* one pass of the loop: whether persist_email succeeds or raises, the
\* checkpoint of mailbox_name is written with the chunk's UID
MbxHandle ==
  /\ mbxRun.stage = "running"
  /\ mbxRun.todo # <<>>
  /\ upsert_sync_state(mbxRun.mailbox, Head(mbxRun.todo))
  /\ mbxRun' = [mbxRun EXCEPT !.todo = Tail(@)]
  /\ UNCHANGED <<besidesMbx, stateAtStart, rowsRead, mbxRuns>>

\* run() returns or raises: after the last message, or on an error before
MbxEnd ==
  /\ mbxRun.stage = "running"
  /\ mbxRun' = [mbxRun EXCEPT !.stage = "idle", !.todo = <<>>]
  /\ UNCHANGED <<besidesMbx, sync_state, stateAtStart, rowsRead, rowsWritten,
                 mbxRuns>>

MbxNext ==
  \/ \E mailbox \in Mailboxes, top \in 0..MaxUid : MbxStart(mailbox, top)
  \/ MbxHandle
  \/ MbxEnd

MbxSpec == MbxInit /\ [][MbxNext]_vars

(* ================================================================ claims *)
\* the UID of the message the run handled last, None when it handled none
LastHandled == IF handled = <<>> THEN None ELSE handled[Len(handled)]

\* the messages of this run whose persist_email succeeded
PersistedOk == attempted \ persistFailed

\* C1: over any sequence of runs the stored checkpoint never decreases: no
\* step of a run stores a UID below the one stored before it.
C1_CheckpointMonotonic == [][checkpoint' >= checkpoint]_vars

\* a later run has written a checkpoint over the one an earlier run left
C1_Witness == runs = 2 /\ last_uid # None /\ cpWrites > 0

\* C2: when run() returns, the stored checkpoint is the largest UID for which
\* persist_email was attempted in the run, whether it succeeded or raised and
\* whatever the enrichment stages did.
C2_CheckpointIsMaxAttempted ==
  (pc = "returned" /\ attempted # {}) => checkpoint = Max(attempted)

\* a run returned whose last message was persisted and got no insight from
\* the configured insight service
C2_Witness ==
  /\ pc = "returned"
  /\ attempted # {}
  /\ cfg.insight_service
  /\ Max(attempted) \in PersistedOk
  /\ insights[Max(attempted)] = NoInsight

\* C3: when persist_email raises for UID u the checkpoint is advanced to u,
\* nothing is enriched or written for u, u is not counted in processed and
\* the loop goes on to the next message.
C3_PoisonContained ==
  /\ [](/\ persistFailed \cap enriched = {}
        /\ processed = Cardinality(Range(handled) \ persistFailed)
        /\ pc = "returned" => result.processed = Len(yielded) - Cardinality(persistFailed))
  /\ [][(pc = "persist" /\ failed' = failed + 1) =>
          /\ checkpoint' = chunk
          /\ pc' = "fetch"
          /\ ids' = ids
          /\ UNCHANGED <<emails, enrichVars, processed>>]_vars

\* a run returned in which the first message failed to persist and the second
\* one was processed
C3_Witness ==
  /\ pc = "returned"
  /\ persistFailed = {1}
  /\ handled = <<1, 2>>
  /\ result.processed = 1
  /\ checkpoint = 2

\* the UIDs that have an insight, a category, a draft or a follow-up stored
EnrichedRows ==
  {u \in UIDs : \/ insights[u] # NoInsight
                \/ categories[u] # {}
                \/ drafts[u] > 0
                \/ followUps[u] # {}}

\* C4: in every state of either orchestrator an insight, a category set, a
\* follow-up set or a draft is stored for a UID only if its envelope is.
C4_DownstreamOfPersistence == EnrichedRows \subseteq emails

\* both orchestrators have written enrichment rows: a draft of MailFetcher
\* and an insight that OptimizedMailFetcher copied from the cache
C4_Witness ==
  /\ \E u \in UIDs : insights[u] = "cached"
  /\ \E u \in UIDs : drafts[u] > 0

\* C5: a run fetches strictly after the stored checkpoint, so no message is
\* persisted twice and no chunk at or below the checkpoint read at the start
\* of a run is handled by it.
C5_ExactlyOnce ==
  /\ \A u \in UIDs : persistCount[u] <= 1
  /\ pc \in {"parse", "persist", "insight", "categorize", "regenerate", "draft",
             "follow_ups", "advance"} => chunk > last_uid

\* the positions of run() between a successful persist_email and the
\* checkpoint write of the message
EnrichmentSteps == {"insight", "categorize", "regenerate", "draft", "follow_ups"}

\* C6: once persist_email has succeeded for a message no enrichment step,
\* the re-read of the stored insight included, makes run() raise or skips
\* the message: every step leads to the next one of the same message, the
\* checkpoint is then written with its UID, the message is counted and the
\* loop goes on.
C6_EnrichmentNeverRaises ==
  [][/\ pc \in EnrichmentSteps =>
          /\ pc' \in EnrichmentSteps \cup {"advance"}
          /\ chunk' = chunk
     /\ pc = "advance" =>
          /\ checkpoint' = chunk
          /\ processed' = processed + 1
          /\ pc' \in {"fetch", "finish"}]_vars

\* the highest UID of the mailbox, None for an empty one
HighestUid == Max(mailboxUids \cup {None})

C8_TransportError ==
  /\ []((pc = "raised" /\ raised = "transport") =>
          /\ checkpoint = (IF handled = <<>> THEN last_uid ELSE LastHandled)
          /\ Range(handled) \ persistFailed \subseteq emails
          /\ ~result.returned)
  /\ [][(pc' = "raised" /\ raised' = "transport" /\ pc # "raised") =>
          UNCHANGED repoVars]_vars

\* the source raised after the run had handled a message
C8_Witness == pc = "raised" /\ raised = "transport" /\ handled # <<>>

\* C9: when parsing UID u fails the run stores no checkpoint for u or a later
\* UID, persists nothing for u, and the next run fetches u again.
C9_ParseFailure ==
  /\ []((pc = "raised" /\ raised = "parse") =>
          /\ checkpoint < chunk
          /\ chunk \notin emails
          /\ chunk \notin attempted)
  /\ [][(pc = "raised" /\ raised = "parse" /\ pc' = "fetch") =>
          chunk \in Range(ids')]_vars

\* the second run has been handed again the message that the parser rejected
C9_Witness ==
  /\ runs = 2
  /\ pc = "raised"
  /\ raised = "parse"
  /\ persistCount[chunk] = 0
  /\ last_uid < chunk

C11_MaxMessagesCap ==
  /\ [](cfg.max_messages # None =>
          /\ processed <= cfg.max_messages
          /\ (pc = "returned" => result.processed <= cfg.max_messages)
          /\ (processed >= cfg.max_messages /\ pc # "raised" =>
                /\ pc \in {"finish", "returned"}
                /\ checkpoint = LastHandled
                /\ checkpoint = chunk))
  /\ [][(/\ cfg.max_messages # None
         /\ pc = "returned"
         /\ result.processed = cfg.max_messages
         /\ pc' = "fetch") =>
            \A i \in 1..Len(ids') : ids'[i] = checkpoint + i]_vars

\* place of a stage in the order that the specification fixes
StageRank(stage) ==
  CASE stage = "parse"      -> 0
    [] stage = "persist"    -> 1
    [] stage = "insight"    -> 2
    [] stage = "categorize" -> 3
    [] stage = "regenerate" -> 4
    [] stage = "draft"      -> 5
    [] stage = "follow_ups" -> 6
    [] OTHER                -> 7

\* place of a call inside its stage: the service, the write of its result,
\* the re-read of the stored insight
OpRank(op) ==
  IF op \in {"persist_insight", "replace_categories", "persist_draft",
             "replace_follow_ups"} THEN 2
  ELSE IF op = "fetch_insight" THEN 3
  ELSE 1

\* call a comes before call b in the fixed order
CallBefore(a, b) ==
  \/ StageRank(a.stage) < StageRank(b.stage)
  \/ StageRank(a.stage) = StageRank(b.stage) /\ OpRank(a.op) < OpRank(b.op)

\* the stage of every kind of call
StageOfOp ==
  [op \in {"parse"} |-> {"parse"}] @@
  [op \in {"persist_email"} |-> {"persist"}] @@
  [op \in {"generate_insight", "persist_insight"} |-> {"insight", "regenerate"}] @@
  [op \in {"fetch_insight"} |-> {"insight"}] @@
  [op \in {"categorize", "replace_categories"} |-> {"categorize"}] @@
  [op \in {"generate_draft", "persist_draft"} |-> {"draft"}] @@
  [op \in {"plan_follow_ups", "replace_follow_ups"} |-> {"follow_ups"}]

\* C12: for a message whose persistence succeeded the calls of MailFetcher
\* come in the fixed order insight, categorize, insight with categories,
\* draft, follow-ups; its checkpoint is written only from the end of the
\* loop body, after the stages of the configured services have run; and the
\* first call for the next message (parse) is made only after that write.
C12_StageOrder ==
  /\ [](/\ \A i \in 1..Len(calls) :
             /\ calls[i].uid = chunk
             /\ calls[i].stage \in StageOfOp[calls[i].op]
        /\ \A i \in 1..(Len(calls) - 1) : CallBefore(calls[i], calls[i + 1])
        /\ pc = "advance" =>
             /\ cfg.insight_service =>
                  \E i \in 1..Len(calls) : /\ calls[i].op = "generate_insight"
                                           /\ calls[i].stage = "insight"
             /\ cfg.category_service =>
                  \E i \in 1..Len(calls) : calls[i].op = "categorize")
  /\ [][/\ (cpWrites' = cpWrites + 1 /\ chunk \in PersistedOk) =>
             /\ pc = "advance"
             /\ checkpoint' = chunk
        /\ (calls' # calls /\ calls' # <<>>) =>
             /\ chunk' = chunk
             /\ SubSeq(calls', 1, Len(calls)) = calls
             /\ (calls = <<>>) = (calls'[1].op = "parse" /\ Len(calls') = 1)
       ]_vars

\* every stage of a message made its call, every stage but the second
\* insight generation its write, and the checkpoint write is next
C12_Witness ==
  /\ pc = "advance"
  /\ Len(calls) = 11
  /\ calls[7].op = "generate_insight"
  /\ calls[8].op = "generate_draft"
  /\ calls[11].op = "replace_follow_ups"

\* the insight write of the given stage was made for the message in hand and
\* returned
InsightWritten(stage) ==
  \E i \in 1..Len(calls) : /\ calls[i].op = "persist_insight"
                           /\ calls[i].stage = stage
                           /\ calls[i].ok

\* the insight given to the draft and follow-up calls made so far
InsightsHandedOn ==
  {calls[i].arg : i \in {j \in 1..Len(calls) :
                           calls[j].op \in {"generate_draft", "plan_follow_ups"}}}

InsightServiceCalls ==
  {i \in 1..Len(calls) : /\ calls[i].op = "generate_insight"
                         /\ calls[i].arg # "TypeError"}

InsightWrites == {i \in 1..Len(calls) : calls[i].op = "persist_insight"}

CallsOf(op) == {i \in 1..Len(calls) : calls[i].op = op}

\* the categories assigned in this pass hold an excluded key
Excluded == cats \cap excluded_categories # {}

\* the envelope in hand lists the configured address, where one is configured
AddressedToUser ==
  cfg.user_email # "None" =>
    cfg.user_email \in (EnvelopeOf(chunk).to \cup EnvelopeOf(chunk).cc
                          \cup EnvelopeOf(chunk).bcc)

ExcludedByAnalysis ==
  {calls'[i].uid : i \in {j \in 1..Len(calls') :
      /\ calls'[j].op = "analyze_comprehensive"
      /\ Analysis(calls'[j].arg).categories \cap excluded_categories # {}}}

Recipients(u) == EnvelopeOf(u).to \cup EnvelopeOf(u).cc \cup EnvelopeOf(u).bcc

\* C17: with a personal address configured no step stores a draft for an
\* envelope whose to, cc and bcc lists lack it, and MailFetcher makes no
\* persist_draft call for it; the follow-up planner is called for every
\* message with an insight and no excluded category, addressed to the user or
\* not; with no address configured the drafting service is called exactly
\* for the messages with an insight and no excluded category.
C17_PersonalAddressRule ==
  /\ [][\A u \in UIDs :
          (drafts'[u] # drafts[u] /\ cfg.user_email # "None") =>
             cfg.user_email \in Recipients(u)]_vars
  /\ [](pc = "advance" =>
          /\ CallsOf("persist_draft") # {} => AddressedToUser
          /\ (cfg.user_email = "None" /\ cfg.drafting_service
                /\ insight # NoInsight) =>
               (CallsOf("generate_draft") # {} <=> ~Excluded)
          /\ (cfg.follow_up_planner /\ insight # NoInsight /\ ~Excluded) =>
               CallsOf("plan_follow_ups") # {})

\* a message that is not addressed to the configured address, with an
\* insight and a category that is not excluded: no draft call, and the
\* follow-ups were planned and stored
C17_Witness ==
  /\ pc = "advance"
  /\ cfg.user_email = Me
  /\ cfg.drafting_service
  /\ Me \notin Recipients(chunk)
  /\ insight # NoInsight
  /\ cats = {"work"}
  /\ CallsOf("generate_draft") = {}
  /\ \E i \in CallsOf("replace_follow_ups") : calls[i].ok

\* C18: for every combination of category keys, recipient lists and
\* user_email value, None and the empty string included, MailFetcher and
\* OptimizedMailFetcher decide alike whether a draft may be stored.
C18_SameDraftRule ==
  ruleDecision.decided =>
    ruleDecision.MailFetcher = ruleDecision.OptimizedMailFetcher

\* subject, sender and body text of the message with UID u
SubjectSenderText(u) ==
  <<ContentOf(u).subject, ContentOf(u).sender, ContentOf(u).text>>

\* C19: of two messages with different UIDs and the same subject, sender
\* and body text, OptimizedMailFetcher has at most one analysed by the
\* composite AI call, over all batches and runs.
C19_OneCallPerContent ==
  \A u, v \in UIDs :
    (u # v /\ SubjectSenderText(u) = SubjectSenderText(v)) =>
       aiCalls[u] + aiCalls[v] <= 1

\* what a lookup step and a copy step of the cache do with the payload of
\* an insight (summary, action items, priority, generation time, fallback
\* flag) and with its provider: every result of a lookup is the payload and
\* the provider of an insight row of an email of the repository, and the
\* copy writes that payload under the UID of the envelope, with the cached
\* marker, and touches no other row
CachedCopyIsFaithful ==
  /\ [][(pc = "opt_batch" /\ pc' = "opt_cached") =>
          \A k \in 1..Len(cached') :
            \E v \in emails : /\ insights[v] # NoInsight
                              /\ cached'[k].source = insightSource[v]
                              /\ cached'[k].provider = insights[v]]_vars
  /\ [][(pc = "opt_cached" /\ <<insights, insightSource>>' # <<insights, insightSource>>) =>
          /\ insightSource'[Head(cached).uid] = Head(cached).source
          /\ insights'[Head(cached).uid] = "cached"
          /\ \A w \in UIDs \ {Head(cached).uid} :
               insights'[w] = insights[w] /\ insightSource'[w] = insightSource[w]]_vars

\* C20 as stated: an insight served from the cache has the payload of the
\* insight it was copied from and differs in UID and provider marker only,
\* and no insight row holds a payload computed for a message with another
\* subject, sender or body text.
C20_CacheCorrect ==
  /\ CachedCopyIsFaithful
  /\ [](\A u \in UIDs :
          insightSource[u] # None =>
            SubjectSenderText(insightSource[u]) = SubjectSenderText(u))

\* C20, amended: an insight served from the cache has the payload of the
\* insight it was copied from and differs in UID and provider marker only,
\* and no insight row holds a payload computed for a message with another
\* cache key, the key being the subject, the sender and the text body or,
\* without a text body, the HTML body.
C20_CacheCorrectForKey ==
  /\ CachedCopyIsFaithful
  /\ [](\A u \in UIDs :
          insightSource[u] # None =>
            compute_content_hash(insightSource[u]) = compute_content_hash(u))

\* the insight of a message was served from the cache with the payload that
\* MailFetcher had computed for another message with the same content
C20_Witness ==
  \E u \in emails :
    /\ insights[u] = "cached"
    /\ insightSource[u] \notin {None, u}
    /\ ContentOf(insightSource[u]) = ContentOf(u)
    /\ insights[insightSource[u]] # NoInsight
    /\ \E i \in 1..Len(calls) : calls[i].op = "persist_insight" /\ calls[i].uid = u

\* C21: the step that stores the categories of an envelope served from the
\* cache stores the category set that the repository holds for the email
\* whose insight the lookup returned.
C21_CachedCategoriesReused ==
  [][(pc = "opt_cached" /\ categories' # categories) =>
       categories'[Head(cached).uid] = categories[Head(cached).email_uid]]_vars

\* how often the message with UID u was handed to _process_batch in the
\* current run
TimesBatched(u) ==
  Cardinality({<<i, j>> \in (1..Len(batches)) \X (1..MaxUid + 1) :
                 j <= Len(batches[i]) /\ batches[i][j] = u})

\* C22: in a run of OptimizedMailFetcher the buffer never holds
\* analysis_batch_size envelopes outside the step that hands it on, every
\* batch has between one and analysis_batch_size envelopes and every batch
\* but the last has exactly that many, an envelope that is persisted and
\* not yet in a batch waits in the buffer, and when run() returns every
\* envelope persisted in the run was in exactly one batch.
C22_BatchBuffering ==
  orchestrator = "OptimizedMailFetcher" =>
    /\ \A i \in 1..Len(batches) :
         /\ Len(batches[i]) >= 1
         /\ Len(batches[i]) <= cfg.analysis_batch_size
         /\ i < Len(batches) => Len(batches[i]) = cfg.analysis_batch_size
    /\ pc \in {"fetch", "parse", "opt_persist", "opt_advance"} =>
         /\ Len(pending) < cfg.analysis_batch_size
         /\ \A i \in 1..Len(batches) : Len(batches[i]) = cfg.analysis_batch_size
         /\ \A u \in attempted \ persistFailed :
              TimesBatched(u) = 0 => u \in Range(pending)
         /\ \A u \in Range(pending) :
              TimesBatched(u) = 0 /\ u \notin enriched
    /\ pc = "returned" =>
         \A u \in attempted : TimesBatched(u) = 1

\* a run with analysis_batch_size 2 returned after it handed its only
\* envelope on in the batch made at the end of the run
C22_Witness ==
  /\ orchestrator = "OptimizedMailFetcher"
  /\ pc = "returned"
  /\ cfg.analysis_batch_size = 2
  /\ Len(batches) = 1
  /\ Len(batches[1]) = 1
  /\ attempted = Range(batches[1])

\* the analyses that a step of _process_batch added to the call log
NewAnalyses ==
  {i \in (Len(calls) + 1)..Len(calls') : calls'[i].op = "analyze_comprehensive"}

\* C23: the step of _process_batch that analyses the envelopes missing from
\* the cache gets one result for each of them, in the order of the buffer,
\* does not raise, and stores result i (insight, categories, follow-ups)
\* under the UID of envelope i.
C23_BatchResultsStored ==
  [][(pc = "opt_batch" /\ NewAnalyses # {}) =>
       /\ pc' # "raised"
       /\ \A i, j \in NewAnalyses :
            i < j => \E a, b \in 1..Len(pending) :
                       /\ a < b
                       /\ pending[a] = calls'[i].uid
                       /\ pending[b] = calls'[j].uid
       /\ \A i \in NewAnalyses :
            /\ calls'[i].uid \in Range(pending)
            /\ insights'[calls'[i].uid] = "analysis"
            /\ insightSource'[calls'[i].uid] = calls'[i].uid
            /\ categories'[calls'[i].uid] = Analysis(calls'[i].arg).categories
            /\ followUps'[calls'[i].uid] = Analysis(calls'[i].arg).follow_ups]_vars

\* C24: when persist_email fails for a message in a run of
\* OptimizedMailFetcher, that step leaves the checkpoint at the UID of the
\* message, does not end the run, goes on to the next message, and the
\* message is in no enrichment batch.
C24_BatchedPoisonContained ==
  /\ [][(pc = "opt_persist" /\ persistFailed' # persistFailed) =>
          /\ checkpoint' = chunk
          /\ pc' = "fetch"
          /\ chunk \notin Range(pending')]_vars
  /\ [](orchestrator = "OptimizedMailFetcher" =>
          \A u \in persistFailed : u \notin enriched /\ TimesBatched(u) = 0)

\* C25: single logical writer: no two runs of the orchestrator for the one
\* mailbox are active at the same time, also when a second POST /sync arrives
\* while an earlier sync is still running, and so the checkpoint writes of
\* different runs never interleave: the writes of one run are contiguous
C25_SingleWriter ==
  /\ Cardinality(ActiveSyncs) <= 1
  /\ \A i, j, k \in 1..Len(syncWrites) :
       (i < j /\ j < k /\ syncWrites[i].run = syncWrites[k].run) =>
         syncWrites[j].run = syncWrites[i].run
\* the category keys stored for the UID
StoredCategories(uid) == {r.category_key : r \in RowsOf(tblCategories, uid)}

\* the actions of the follow-ups stored for the UID
StoredActions(uid) == {r.action : r \in RowsOf(tblFollowUps, uid)}

\* C26: replace-entire-set semantics: after replace_categories(u, B) the
\* stored categories of u are exactly B whatever an earlier call stored, and
\* after replace_follow_ups(u, B) the stored follow-ups of u are exactly B,
\* never a union with the earlier ones; the rows of every other UID stay
C26_ReplaceEntireSet ==
  [][/\ \A u \in UIDs, cs \in CategoryLists :
          replace_categories(u, cs) =>
            /\ StoredCategories(u)' = Range(cs)
            /\ \A v \in UIDs \ {u} : RowsOf(tblCategories, v)' = RowsOf(tblCategories, v)
     /\ \A u \in UIDs, actions \in ActionLists :
          replace_follow_ups(u, actions) =>
            /\ StoredActions(u)' = Range(actions)
            /\ Cardinality(RowsOf(tblFollowUps, u)') = Len(actions)
            /\ \A v \in UIDs \ {u} : RowsOf(tblFollowUps, v)' = RowsOf(tblFollowUps, v)]_vars

\* a second replace_follow_ups removed the two tasks of the first and left
\* its own single task
C26_Witness ==
  /\ lastOp.op = "replace_follow_ups"
  /\ lastOp.deleted = 2
  /\ StoredActions(lastOp.uid) = {"Send summary"}
\* the file names of the attachments stored for the UID
StoredAttachments(uid) == {r.filename : r \in RowsOf(tblAttachments, uid)}

C28_IdentityIsMailboxAndUid ==
  /\ \A key \in persistedFrom :
       \E r \in tblEmails : r.mailbox = key[1] /\ r.uid = key[2]
  /\ \A u \in UIDs :
       enrichedOf[u] # "none" => \A r \in EmailsWith(u) : r.mailbox = enrichedOf[u]
FailedPosts == {i \in 1..Len(posts) : posts[i].answer = "HTTPError"}

\* C30: bounded AI retry: a call of generate makes at most 3 HTTP attempts
\* and none after the first answer that is not an HTTPError; the delays
\* between failed attempts grow as 2 and 4 seconds, one per failed attempt
\* that another attempt follows and none after the last; when all 3 attempts
\* fail the call raises LLMError; every call that ends gives its caller a
\* result or an LLMError
C30_BoundedRetry ==
  /\ Len(posts) <= 3
  /\ \A i \in 1..Len(posts) - 1 : posts[i].answer = "HTTPError"
  /\ Len(slept) <= 2
  /\ \A i \in 1..Len(slept) : slept[i] = Pow2(i)
  /\ llmPc \in {"after_loop", "done"} => Len(slept) = Min(Cardinality(FailedPosts), 2)
  /\ (llmPc = "done" /\ Cardinality(FailedPosts) = 3) => llmOutcome = "LLMError"
  /\ llmPc = "done" => llmOutcome \in {"result", "LLMError"}
\* the answers that are not valid JSON or are an object that lacks a field
Malformed == {"not_json", "object_without_field"}

C32_SourceContract ==
  /\ [](/\ \A i, j \in 1..Len(yielded) : i < j => yielded[i] < yielded[j]
        /\ last_uid # None => \A i \in 1..Len(yielded) : yielded[i] > last_uid
        /\ \A size \in 1..MaxBatchSize : FetchOrder(Chunked(ids, size)) = ids)
  /\ [][(pc = "fetch" /\ ids # <<>> /\ ids' = Tail(ids) /\ yielded' = yielded
             /\ raised' = raised)
          => pc' = "fetch"]_vars
\* C33: the checkpoint never runs ahead of enrichment in the batched
\* orchestrator: whenever a run of OptimizedMailFetcher has ended, by its
\* report or by an exception, every envelope it persisted whose UID is at or
\* below the stored checkpoint was handed to an enrichment batch
C33_CheckpointBehindEnrichment ==
  (orchestrator = "OptimizedMailFetcher" /\ pc \in {"returned", "raised"}) =>
    \A u \in attempted \ persistFailed :
      (checkpoint # None /\ u <= checkpoint) => TimesBatched(u) >= 1

\* C34: every step of MailFetcher.run that ends the handling of a message
\* (the end of the loop body, or the except branch of persist_email) leaves
\* the stored checkpoint equal to that message's UID, whatever value was
\* stored before and whatever checkpoint the run read at its start; the
\* message may be one at or below that checkpoint.
C34_CheckpointIsHandledUid ==
  [][(\/ pc = "advance" /\ Len(handled') = Len(handled) + 1
      \/ pc = "persist" /\ failed' = failed + 1
      \/ cpWrites' = cpWrites + 1) =>
        /\ checkpoint' = chunk
        /\ cpWrites' = cpWrites + 1
        /\ new_last_uid' = chunk]_vars

\* a later run has handled the message it was handed again, whose UID is not
\* above the checkpoint read at the start, and has stored that UID
C34_Witness ==
  /\ runs >= 2
  /\ last_uid # None
  /\ pc = "fetch"
  /\ cpWrites >= 1
  /\ chunk <= last_uid
  /\ new_last_uid = chunk
  /\ checkpoint = chunk

\* C35: when run() of a newly constructed OptimizedMailFetcher returns, its
\* metrics are exact counts of that run: cache_hits + cache_misses is the
\* number of envelopes handed to _process_batch, cache_misses the number
\* sent to the analyzer, total_calls the number of composite AI calls that
\* succeeded.
C35_MetricsExact ==
  metPc = "returned" =>
    /\ fetcherMetrics.cache_hits + fetcherMetrics.cache_misses = tally.enriched
    /\ fetcherMetrics.cache_misses = tally.sent
    /\ fetcherMetrics.total_calls = tally.calls

\* the keys make_key("dashboard", ...) gives for the dashboard's requests
DashboardKeys == {make_key(request) : request \in DashboardRequests}

\* C36: a handler that changes the data and calls invalidate("dashboard")
\* leaves no entry under a key built by make_key("dashboard", ...), and GET /
\* never serves from the cache a response rendered before the last change.
C36_InvalidateRemovesDashboard ==
  [][/\ (dataVersion' # dataVersion) =>
          (\A entry \in cacheEntries' : entry.key \notin DashboardKeys)
     /\ (served' # served /\ served'.from_cache) =>
          (served'.version = dataVersion)]_vars

\* the callers that have been handed a connection and not yet given it back
Holders == {c \in PoolCallers : callerPc[c] \in {"holding", "put"}}

\* C37: in an open pool of size n, whenever no caller is inside the
\* statements of acquire, the connections in the queue and the connections
\* held by callers number n; no connection is held by two callers or held
\* and in the queue at once; and a caller that gives its connection back
\* finds room in the queue.
C37_PoolConservation ==
  ~poolClosed =>
    /\ (\A c \in PoolCallers : callerPc[c] \in {"idle", "holding", "put"}) =>
         Len(poolQueue) + Cardinality(Holders) = pool_size
    /\ \A c, d \in Holders : c # d => repository[c] # repository[d]
    /\ \A c \in Holders : callerPc[c] = "holding" =>
         repository[c] \notin Range(poolQueue)
    /\ \A c \in PoolCallers : callerPc[c] = "put" => Len(poolQueue) < pool_size

\* C38: once the pool is closed it stays closed, an acquire that starts
\* afterwards raises RuntimeError and hands out nothing, a second close()
\* changes nothing, and when every caller has given back what it held no
\* connection the pool created is still open.
C38_PoolShutdown ==
  /\ []((poolClosed /\ \A c \in PoolCallers : callerPc[c] = "idle") =>
          \A r \in ConnectionIds : connStatus[r] # "open")
  /\ [][poolClosed =>
          /\ poolClosed'
          /\ \A c \in PoolCallers :
               callerPc[c] = "idle" =>
                 /\ callerPc'[c] = "idle"
                 /\ acquireRaised'[c] # acquireRaised[c] =>
                      acquireRaised'[c] = "RuntimeError"
          /\ closeCalls' # closeCalls => UNCHANGED <<poolQueue, connStatus>>]_vars

\* the rows of sync_state of the mailboxes other than the given one
OtherCheckpoints(table, mailbox) == {row \in table : row.mailbox # mailbox}

\* C39: a run for a mailbox reads and writes no row of sync_state but that
\* mailbox's, and the rows of every other mailbox are, at every point of the
\* run and after it, what they were when the run started; one row at most is
\* kept per mailbox.
C39_CheckpointPerMailbox ==
  /\ rowsRead \subseteq {mbxRun.mailbox}
  /\ rowsWritten \subseteq {mbxRun.mailbox}
  /\ OtherCheckpoints(sync_state, mbxRun.mailbox)
       = OtherCheckpoints(stateAtStart, mbxRun.mailbox)
  /\ \A mailbox \in Mailboxes : Cardinality(SelectSyncState(mailbox)) <= 1

\* a run for INBOX has written INBOX's checkpoint while Archive's, written
\* by an earlier run, is still there
C39_Witness ==
  /\ mbxRun.mailbox = "INBOX"
  /\ rowsWritten = {"INBOX"}
  /\ get_checkpoint("INBOX") = 1
  /\ get_checkpoint("Archive") = 2
  /\ stateAtStart = {[mailbox |-> "Archive", last_uid |-> 2]}
====
